---- MODULE Spec2Model ----
(***************************************************************************)
(* Detection side of the TTRPG companion: the dual-signal detection state  *)
(* machine (detection/fsm.rs), the energy VAD (detection/vad.rs), the      *)
(* keyword vocabulary search (detection/keyword.rs) and the pipeline that  *)
(* drives them (detection/pipeline.rs).                                    *)
(*                                                                         *)
(* Confidences, amplitudes and thresholds are f32 values in [0,1] in the   *)
(* source; here they are integers in hundredths (0.6 is 60, 0.8 is 80).    *)
(* Option<T> is a sequence: <<>> is None and <<x>> is Some(x).             *)
(* A sample buffer is represented by its length.                           *)
(***************************************************************************)
EXTENDS Integers, Sequences, FiniteSets, TLC

VARIABLES
    fsm,            \* DetectionFsm: state, mode, signal flags, last keyword/emotion
    config,         \* DetectionPipeline.config
    vad,            \* DetectionPipeline.vad
    whisper_initialized, \* DetectionPipeline.whisper is initialized
    emotion_initialized, \* DetectionPipeline.emotion_analyzer.initialized
    audio_buffer,   \* DetectionPipeline.audio_buffer, its length
    segment_buffer, \* DetectionPipeline.segment_buffer, its length
    event_tx,       \* DetectionPipeline.event_tx is Some
    is_running,     \* DetectionPipeline.is_running
    emitted,        \* the events the last operation sent to event_tx
    audio_calls,    \* history: parity of the number of process_audio calls
    last_event,     \* history: the event most recently given to process_event
    kw_in_episode,  \* history: KeywordMatched processed since the last Listening->Detecting
    emo_in_episode, \* history: EmotionDetected (conf > 0.6) processed since then
    elapsed_ms,     \* history: wall-clock time since the FSM last changed state
    fed,            \* history: the events the last operation gave to process_event
    last_transcribe, \* history: how transcribe ended in the last process_audio call
    script,         \* the event sequence of a scripted run (SpecSeq)
    pc,             \* number of script events already processed
    path,           \* states the scripted FSM went through
    in_flight,      \* SpecStop: the process_audio call that holds the pipeline
    stop_pending,   \* SpecStop: stop() was called and waits for the pipeline
    vad_result,     \* SpecVad: the VadResult of the last process_frame
    last_frame,     \* SpecVad: the frame last given to process_frame
    open_start,     \* SpecVad: the start timestamp of the speech segment still open
    fsm2,           \* SpecMode: a second DetectionFsm, fed the same events as fsm
    vocabulary,     \* SpecKw: a KeywordVocabulary
    vocab_op,       \* SpecKw: the last call made on the vocabulary
    vocab_calls,    \* SpecKw: parity of the number of calls made on the vocabulary
    found,          \* SpecKw: what the last search returned
    reload_result,  \* SpecReload: what the last reload_if_changed returned
    round_trip,     \* SpecJson: from_json(to_json(vocabulary)) of the last round trip
    emo_features,   \* SpecEmo: the features of the segment last analysed
    emo_result,     \* SpecEmo: the scores and primary emotion analyze gave for it
    verifier,       \* SpecSpk: a SpeakerVerifier
    verify_call,    \* SpecSpk: the last verify call, its candidate and its result
    engine,         \* SpecEngine: an AudioEngine
    engine_op,      \* SpecEngine: the last call made on the engine, with its result
    engine_twin,    \* SpecEngine: play_track applied where crossfade_to was
    session,        \* SpecSession: a SessionOrchestrator
    session_op,     \* SpecSession: the last call made on it, with its result
    app,            \* SpecCmd: the AppState the session commands share
    cmds,           \* SpecCmd: per caller, the session command it is in and where
    captures        \* SpecCmd: the capture threads spawned, never joined

fsm_history == <<last_event, kw_in_episode, emo_in_episode, elapsed_ms, fed>>
pipeline_vars ==
    <<config, vad, whisper_initialized, emotion_initialized, audio_buffer,
      segment_buffer, event_tx, is_running, emitted>>
call_history == <<audio_calls, last_transcribe>>
script_vars == <<script, pc, path>>
stop_vars == <<in_flight, stop_pending>>
vad_vars == <<vad_result, last_frame, open_start>>
kw_vars == <<vocabulary, vocab_op, vocab_calls, found>>
\* the variables of the specifications that do not run a whole pipeline
reload_vars == <<reload_result, round_trip>>
emo_vars == <<emo_features, emo_result>>
spk_vars == <<verifier, verify_call>>
engine_vars == <<engine, engine_op, engine_twin>>
session_vars == <<session, session_op>>
cmd_vars == <<app, cmds, captures>>
\* the variables of the reload, emotion, speaker, audio engine and session parts
more_vars == <<reload_vars, emo_vars, spk_vars, engine_vars, session_vars, cmd_vars>>
other_vars == <<script_vars, stop_vars, vad_vars, fsm2, kw_vars, more_vars>>
vars == <<fsm, fsm_history, pipeline_vars, call_history, other_vars>>

None == <<>>
Some(x) == <<x>>

----------------------------------------------------------------------------
(* Bounds of the model *)

\* wall-clock time advances in steps of TickMs and is tracked up to MaxElapsedMs
TickMs == 10000
MaxElapsedMs == 20000

\* process_audio is called while the shared audio buffer holds at most this much
MaxAudioSamples == 128000

\* a vocabulary is changed until its version reaches this
MaxVersion == 3

----------------------------------------------------------------------------
(* detection/fsm.rs *)

\* DetectionEvent, one constructor per variant
VoiceDetected == [type |-> "VoiceDetected", s |-> "", s2 |-> "", conf |-> 0, b |-> FALSE]
VoiceEnded == [type |-> "VoiceEnded", s |-> "", s2 |-> "", conf |-> 0, b |-> FALSE]
TranscriptionReady(text) == [type |-> "TranscriptionReady", s |-> text, s2 |-> "", conf |-> 0, b |-> FALSE]
KeywordMatched(kw) == [type |-> "KeywordMatched", s |-> kw, s2 |-> "", conf |-> 0, b |-> FALSE]
EmotionDetected(emotion, c) == [type |-> "EmotionDetected", s |-> emotion, s2 |-> "", conf |-> c, b |-> FALSE]
SpeakerVerified(v) == [type |-> "SpeakerVerified", s |-> "", s2 |-> "", conf |-> 0, b |-> v]
Signal1Triggered(kw) == [type |-> "Signal1Triggered", s |-> kw, s2 |-> "", conf |-> 0, b |-> FALSE]
Signal2Triggered(emotion, c) == [type |-> "Signal2Triggered", s |-> emotion, s2 |-> "", conf |-> c, b |-> FALSE]
DualSignalConfirmed(kw, emotion) == [type |-> "DualSignalConfirmed", s |-> kw, s2 |-> emotion, conf |-> 0, b |-> FALSE]
Timeout == [type |-> "Timeout", s |-> "", s2 |-> "", conf |-> 0, b |-> FALSE]
CooldownComplete == [type |-> "CooldownComplete", s |-> "", s2 |-> "", conf |-> 0, b |-> FALSE]
Reset == [type |-> "Reset", s |-> "", s2 |-> "", conf |-> 0, b |-> FALSE]
NoEvent == [type |-> "NoEvent", s |-> "", s2 |-> "", conf |-> 0, b |-> FALSE]

DetectionStates == {"Listening", "Detecting", "Locked", "Cooldown"}
DetectionModes == {"Autonomous", "Collaborative"}

\* EMOTION_CONFIDENCE_THRESHOLD, the literal 0.6 of process_event
EmotionConfidenceThreshold == 60

\* DetectionFsm::new
FsmNew ==
    [state |-> "Listening", mode |-> "Autonomous",
     signal1_confirmed |-> FALSE, signal2_confirmed |-> FALSE,
     last_keyword |-> None, last_emotion |-> None]

check_and_transition_either(f) ==
    IF f.signal1_confirmed \/ f.signal2_confirmed
    THEN [f EXCEPT !.state = "Locked"]
    ELSE f

\* DetectionFsm::check_and_transition
check_and_transition(f) ==
    IF f.signal1_confirmed /\ f.signal2_confirmed
    THEN [f EXCEPT !.state = "Locked"]
    ELSE f

any_state_arms_keep_flags(f, ev) ==
    IF ev.type = "Reset"
    THEN [f EXCEPT !.state = "Listening", !.last_keyword = None, !.last_emotion = None]
    ELSE f

\* process_event, the arm (_, Reset) and the final arm _ => {}
any_state_arms(f, ev) ==
    IF ev.type = "Reset"
    THEN [f EXCEPT !.state = "Listening",
                   !.signal1_confirmed = FALSE, !.signal2_confirmed = FALSE,
                   !.last_keyword = None, !.last_emotion = None]
    ELSE f

listening_arms_keep_flags(f, ev) ==
    IF ev.type = "VoiceDetected"
    THEN [f EXCEPT !.state = "Detecting"]
    ELSE any_state_arms(f, ev)

\* process_event, the arms that match state Listening
listening_arms(f, ev) ==
    IF ev.type = "VoiceDetected"
    THEN [f EXCEPT !.state = "Detecting",
                   !.signal1_confirmed = FALSE,
                   !.signal2_confirmed = FALSE]
    ELSE any_state_arms(f, ev)

\* process_event, the arms that match state Detecting
detecting_arms(f, ev) ==
    CASE ev.type = "KeywordMatched" ->
            check_and_transition(
                [f EXCEPT !.signal1_confirmed = TRUE, !.last_keyword = Some(ev.s)])
      [] ev.type = "EmotionDetected" ->
            IF ev.conf > EmotionConfidenceThreshold
            THEN check_and_transition(
                    [f EXCEPT !.signal2_confirmed = TRUE, !.last_emotion = Some(ev.s)])
            ELSE f
      [] ev.type = "VoiceEnded" ->
            IF ~f.signal1_confirmed /\ ~f.signal2_confirmed
            THEN [f EXCEPT !.state = "Listening"]
            ELSE f
      [] ev.type = "Timeout" -> [f EXCEPT !.state = "Listening"]
      [] OTHER -> any_state_arms(f, ev)

locked_arms_voice_restarts(f, ev) ==
    CASE ev.type = "CooldownComplete" ->
            [f EXCEPT !.state = "Listening",
                      !.signal1_confirmed = FALSE, !.signal2_confirmed = FALSE,
                      !.last_keyword = None, !.last_emotion = None]
      [] ev.type = "VoiceDetected" ->
            [f EXCEPT !.state = "Detecting",
                      !.signal1_confirmed = FALSE, !.signal2_confirmed = FALSE]
      [] OTHER -> any_state_arms(f, ev)

\* process_event, the arms that match state Locked
locked_arms(f, ev) ==
    IF ev.type = "CooldownComplete"
    THEN [f EXCEPT !.state = "Listening",
                   !.signal1_confirmed = FALSE, !.signal2_confirmed = FALSE,
                   !.last_keyword = None, !.last_emotion = None]
    ELSE any_state_arms(f, ev)

\* DetectionFsm::process_event: match (self.state, event)
process_event(f, ev) ==
    CASE f.state = "Listening" -> listening_arms(f, ev)
      [] f.state = "Detecting" -> detecting_arms(f, ev)
      [] f.state = "Locked" -> locked_arms(f, ev)
      [] OTHER -> any_state_arms(f, ev)

set_mode_restarts(f, m) == [f EXCEPT !.mode = m, !.state = "Listening"]

\* DetectionFsm::set_mode
set_mode(f, m) == [f EXCEPT !.mode = m]

\* DetectionFsm::is_dual_signal_confirmed
is_dual_signal_confirmed(f) == f.signal1_confirmed /\ f.signal2_confirmed

----------------------------------------------------------------------------
(* History of a run: what the FSM was fed, and which signals were confirmed *)
(* in the current Detecting episode.  Kept beside the FSM, never read by it. *)

Tracked(f, last, kw, emo) ==
    [f |-> f, last |-> last, kw |-> kw, emo |-> emo, changed |-> FALSE, fed |-> <<>>]

\* one call of process_event, with the history brought up to date
Feed(t, ev) ==
    LET f2 == process_event(t.f, ev)
        enter == t.f.state = "Listening" /\ f2.state = "Detecting"
        inDetecting == t.f.state = "Detecting"
    IN  [f |-> f2,
         last |-> ev,
         kw |-> IF enter THEN FALSE
                ELSE IF inDetecting /\ ev.type = "KeywordMatched" THEN TRUE
                ELSE t.kw,
         emo |-> IF enter THEN FALSE
                 ELSE IF inDetecting /\ ev.type = "EmotionDetected" /\ ev.conf > 60 THEN TRUE
                 ELSE t.emo,
         changed |-> t.changed \/ f2.state # t.f.state,
         fed |-> Append(t.fed, ev)]

\* successive calls of process_event
RECURSIVE FeedAll(_, _)
FeedAll(t, evs) ==
    IF evs = <<>> THEN t ELSE FeedAll(Feed(t, Head(evs)), Tail(evs))

----------------------------------------------------------------------------
(* detection/keyword.rs *)

UpperCase == "ABCDEFGHIJKLMNOPQRSTUVWXYZ"
LowerCase == "abcdefghijklmnopqrstuvwxyz"

Char(s, i) == SubSeq(s, i, i)

\* char::to_lowercase on the characters the model uses
LowerChar(c) ==
    IF \E i \in 1..Len(UpperCase) : Char(UpperCase, i) = c
    THEN LET i == CHOOSE j \in 1..Len(UpperCase) : Char(UpperCase, j) = c
         IN  Char(LowerCase, i)
    ELSE c

\* str::to_lowercase
RECURSIVE to_lowercase(_)
to_lowercase(s) ==
    IF Len(s) = 0 THEN ""
    ELSE LowerChar(Char(s, 1)) \o to_lowercase(SubSeq(s, 2, Len(s)))

\* str::split_whitespace, collected: the maximal runs of non-blank characters
RECURSIVE SplitFrom(_, _, _)
SplitFrom(s, i, word) ==
    IF i > Len(s)
    THEN IF word = "" THEN <<>> ELSE <<word>>
    ELSE IF Char(s, i) = " "
         THEN (IF word = "" THEN <<>> ELSE <<word>>) \o SplitFrom(s, i + 1, "")
         ELSE SplitFrom(s, i + 1, word \o Char(s, i))

split_whitespace(s) == SplitFrom(s, 1, "")

\* str::contains
contains(s, t) ==
    \E i \in 0..(Len(s) - Len(t)) : SubSeq(s, i + 1, i + Len(t)) = t

Max(a, b) == IF a >= b THEN a ELSE b

\* Keyword::new followed by with_variation and with_mood calls
Keyword(word, category, more_variations, mood) ==
    [word |-> word, category |-> category,
     variations |-> <<word>> \o more_variations,
     mood |-> mood, priority |-> 0]

\* a Keyword as serde deserializes it, every field given
KeywordOf(word, category, variations, mood, priority) ==
    [word |-> word, category |-> category, variations |-> variations,
     mood |-> mood, priority |-> priority]

\* KeywordVocabulary::new
VocabularyNew == [keywords |-> <<>>, categories |-> <<>>, version |-> 0]

Range(seq) == {seq[i] : i \in 1..Len(seq)}

\* KeywordVocabulary::add_keyword
add_keyword(v, keyword) ==
    LET keys == {to_lowercase(var) : var \in Range(keyword.variations)}
        cat == keyword.category
    IN  [keywords |->
            [k \in DOMAIN v.keywords \cup keys |->
                IF k \in keys THEN keyword ELSE v.keywords[k]],
         categories |->
            [c \in DOMAIN v.categories \cup {cat} |->
                IF c = cat
                THEN (IF c \in DOMAIN v.categories THEN v.categories[c] ELSE <<>>)
                        \o <<keyword.word>>
                ELSE v.categories[c]],
         version |-> v.version + 1]

remove_keyword_always_bumps(v, word) ==
    LET key == to_lowercase(word)
    IN  IF key \in DOMAIN v.keywords
        THEN LET keyword == v.keywords[key]
             IN  [keywords |-> [k \in DOMAIN v.keywords \ {key} |-> v.keywords[k]],
                  categories |->
                    [c \in DOMAIN v.categories |->
                        IF c = keyword.category
                        THEN SelectSeq(v.categories[c], LAMBDA k : k # keyword.word)
                        ELSE v.categories[c]],
                  version |-> v.version + 1]
        ELSE [v EXCEPT !.version = @ + 1]

\* KeywordVocabulary::remove_keyword
remove_keyword(v, word) ==
    LET key == to_lowercase(word)
    IN  IF key \in DOMAIN v.keywords
        THEN LET keyword == v.keywords[key]
             IN  [keywords |-> [k \in DOMAIN v.keywords \ {key} |-> v.keywords[k]],
                  categories |->
                    [c \in DOMAIN v.categories |->
                        IF c = keyword.category
                        THEN SelectSeq(v.categories[c], LAMBDA k : k # keyword.word)
                        ELSE v.categories[c]],
                  version |-> v.version + 1]
        ELSE v

RECURSIVE AddAll(_, _)
AddAll(v, keywords) ==
    IF keywords = <<>> THEN v
    ELSE AddAll(add_keyword(v, Head(keywords)), Tail(keywords))

\* default_ttrpg_vocabulary
default_ttrpg_vocabulary ==
    AddAll(VocabularyNew, <<
        Keyword("battle", "combat", <<"fight", "attack", "combat">>, Some("angry")),
        Keyword("dragon", "creature", <<>>, Some("fearful")),
        Keyword("slain", "combat", <<"killed", "defeated">>, Some("sad")),
        Keyword("enter", "exploration", <<"enter", "go into">>, None),
        Keyword("treasure", "loot", <<"gold", "riches">>, Some("happy")),
        Keyword("secret", "mystery", <<"hidden", "mysterious">>, None),
        Keyword("clue", "mystery", <<"evidence">>, None),
        Keyword("merchant", "social", <<"shopkeeper", "trader">>, None),
        Keyword("king", "social", <<"queen", "lord", "lady">>, None),
        Keyword("trap", "danger", <<"danger", "warning">>, Some("fearful")),
        Keyword("poison", "danger", <<>>, Some("disgusted")),
        Keyword("laugh", "emotion", <<"hilarious">>, Some("happy")),
        Keyword("cry", "emotion", <<"tears">>, Some("sad"))>>)

\* one KeywordMatch; the confidence is the fraction num/den.  via is history:
\* the key of the map the match was found under
KeywordMatch(keyword, num, den, i, via) ==
    [keyword |-> keyword.word, category |-> keyword.category,
     num |-> num, den |-> den, start_index |-> i, end_index |-> i, via |-> via]

\* search, the test of the fuzzy loop: kw.contains(word) || word.contains(kw)
fuzzy_hit(kw, word) == contains(kw, word) \/ contains(word, kw)

\* search, the keys whose fuzzy match with a token is kept (confidence > 0.5)
fuzzy_kept(v, word) ==
    {kw \in DOMAIN v.keywords :
        fuzzy_hit(kw, word) /\ 2 * Len(kw) > Max(Len(word), Len(kw))}

\* search, the keys any token of the text reaches through the fuzzy loop
fuzzy_keys(v, text) ==
    UNION {IF w \in DOMAIN v.keywords THEN {} ELSE fuzzy_kept(v, w) :
            w \in Range(split_whitespace(to_lowercase(text)))}

\* the orders in which a HashMap may iterate over the keys of S
RECURSIVE Orders(_)
Orders(S) ==
    IF S = {} THEN {<<>>}
    ELSE UNION {{<<k>> \o rest : rest \in Orders(S \ {k})} : k \in S}

\* a sequence of the elements of S
RECURSIVE SetToSeq(_)
SetToSeq(S) ==
    IF S = {} THEN <<>>
    ELSE LET k == CHOOSE x \in S : TRUE IN <<k>> \o SetToSeq(S \ {k})

\* the iteration orders of the map that search can tell apart on a text: every
\* order of the keys kept for a token that keeps several, the other keys after
HashOrders(v, text) ==
    LET words == Range(split_whitespace(to_lowercase(text))) \ DOMAIN v.keywords
        several == UNION {IF Cardinality(fuzzy_kept(v, w)) > 1 THEN fuzzy_kept(v, w) ELSE {} :
                            w \in words}
        others == fuzzy_keys(v, text) \ several
    IN  {order \o SetToSeq(others) : order \in Orders(several)}

\* search, the matches of the token at index i (from 0); order is the
\* iteration order of the map over the keys the fuzzy loop keeps
RECURSIVE fuzzy_matches(_, _, _, _)
fuzzy_matches(v, word, i, order) ==
    IF order = <<>> THEN <<>>
    ELSE LET kw == Head(order)
         IN  (IF kw \in fuzzy_kept(v, word)
              THEN <<KeywordMatch(v.keywords[kw], Len(kw), Max(Len(word), Len(kw)), i, kw)>>
              ELSE <<>>)
             \o fuzzy_matches(v, word, i, Tail(order))

RECURSIVE token_matches(_, _, _, _)
token_matches(v, words, i, order) ==
    IF i >= Len(words) THEN <<>>
    ELSE LET word == words[i + 1]
         IN  (IF word \in DOMAIN v.keywords
              THEN <<KeywordMatch(v.keywords[word], 1, 1, i, word)>>
              ELSE fuzzy_matches(v, word, i, order))
             \o token_matches(v, words, i + 1, order)

\* search, the priority the comparator looks up for a match
match_priority(v, m) ==
    LET k == to_lowercase(m.keyword)
    IN  IF k \in DOMAIN v.keywords THEN v.keywords[k].priority ELSE 0

\* search, the comparator of sort_by: a sorts strictly before b
sorts_before(v, a, b) ==
    \/ match_priority(v, a) > match_priority(v, b)
    \/ /\ match_priority(v, a) = match_priority(v, b)
       /\ a.num * b.den > b.num * a.den

\* slice::sort_by is stable: insertion behind every element that does not
\* sort strictly after m
RECURSIVE InsertSorted(_, _, _)
InsertSorted(v, sorted, m) ==
    IF sorted = <<>> THEN <<m>>
    ELSE IF sorts_before(v, m, Head(sorted))
         THEN <<m>> \o sorted
         ELSE <<Head(sorted)>> \o InsertSorted(v, Tail(sorted), m)

RECURSIVE StableSort(_, _, _)
StableSort(v, sorted, rest) ==
    IF rest = <<>> THEN sorted
    ELSE StableSort(v, InsertSorted(v, sorted, Head(rest)), Tail(rest))

\* KeywordVocabulary::search, for one iteration order of the map
search(v, text, order) ==
    StableSort(v, <<>>,
        token_matches(v, split_whitespace(to_lowercase(text)), 0, order))

\* KeywordDetector::detect with the vocabulary the pipeline installs
detect(text, order) == search(default_ttrpg_vocabulary, text, order)

----------------------------------------------------------------------------
(* detection/vad.rs *)

\* VAD_THRESHOLD of state.rs
VAD_THRESHOLD == 50

\* an audio frame: len samples, all of amplitude amp (in hundredths)
Frame(len, amp) == [len |-> len, amp |-> amp]

Clamp(x, lo, hi) == IF x < lo THEN lo ELSE IF x > hi THEN hi ELSE x

\* VoiceActivityDetector::new
VadNew == [threshold |-> VAD_THRESHOLD, is_speaking |-> FALSE, speech_start_ms |-> None]

\* VoiceActivityDetector::set_threshold
set_threshold(v, threshold) == [v EXCEPT !.threshold = Clamp(threshold, 0, 100)]

\* VoiceActivityDetector::compute_energy: the RMS of the frame
compute_energy(frame) == IF frame.len = 0 THEN 0 ELSE frame.amp

VadResult(is_speech, confidence, start_ms, end_ms) ==
    [is_speech |-> is_speech, confidence |-> confidence,
     start_ms |-> start_ms, end_ms |-> end_ms]

process_frame_forgets_start(v, frame, timestamp_ms) ==
    LET energy == compute_energy(frame)
        is_speech == energy > v.threshold
        conf == IF energy < 100 THEN energy ELSE 100
    IN  IF is_speech /\ ~v.is_speaking
        THEN [vad |-> [v EXCEPT !.is_speaking = TRUE,
                                !.speech_start_ms = Some(timestamp_ms)],
              result |-> VadResult(TRUE, conf, Some(timestamp_ms), None)]
        ELSE IF ~is_speech /\ v.is_speaking
        THEN [vad |-> [v EXCEPT !.is_speaking = FALSE, !.speech_start_ms = None],
              result |-> VadResult(FALSE, 100 - conf, None, Some(timestamp_ms))]
        ELSE [vad |-> v,
              result |-> VadResult(is_speech, conf, None, None)]

\* VoiceActivityDetector::process_frame: the detector afterwards and the result
process_frame(v, frame, timestamp_ms) ==
    LET energy == compute_energy(frame)
        is_speech == energy > v.threshold
        conf == IF energy < 100 THEN energy ELSE 100
    IN  IF is_speech /\ ~v.is_speaking
        THEN [vad |-> [v EXCEPT !.is_speaking = TRUE,
                                !.speech_start_ms = Some(timestamp_ms)],
              result |-> VadResult(TRUE, conf, Some(timestamp_ms), None)]
        ELSE IF ~is_speech /\ v.is_speaking
        THEN [vad |-> [v EXCEPT !.is_speaking = FALSE, !.speech_start_ms = None],
              result |-> VadResult(FALSE, 100 - conf, v.speech_start_ms,
                                   Some(timestamp_ms))]
        ELSE [vad |-> v,
              result |-> VadResult(is_speech, conf, None, None)]

----------------------------------------------------------------------------
(* inference/whisper.rs and inference/emotion.rs, as the pipeline sees them *)

Ok(value) == [ok |-> TRUE, value |-> value]
Err(kind) == [ok |-> FALSE, value |-> kind]

\* WhisperEngine::transcribe: NotInitialized before init, else what the engine
\* returns for the segment
transcribe(initialized, outcome) ==
    IF ~initialized THEN Err("NotInitialized") ELSE outcome

\* the least number of samples analyze accepts
MinEmotionSamples == 800

\* EmotionAnalyzer::analyze: the two early returns, else the primary emotion
\* and its score for the segment
analyze(initialized, samples_len, outcome) ==
    IF ~initialized THEN Err("NotInitialized")
    ELSE IF samples_len < MinEmotionSamples THEN Err("InsufficientData")
    ELSE outcome

----------------------------------------------------------------------------
(* detection/pipeline.rs *)

\* PipelineConfig::default
DefaultConfig ==
    [enable_vad |-> TRUE,
     enable_speaker_verification |-> FALSE,
     enable_transcription |-> TRUE,
     enable_emotion |-> TRUE,
     vad_threshold |-> 50,
     transcription_segment_ms |-> 8000,
     detection_timeout_ms |-> 10000,
     cooldown_ms |-> 3000]

\* the sample rate DetectionPipeline::new sets
SampleRate == 16000

\* PipelineEvent, the variants the pipeline emits
VoiceStart(ts) == [type |-> "VoiceStart", s |-> "", s2 |-> "", n |-> ts, n2 |-> 0]
VoiceEnd(start_ms, end_ms) == [type |-> "VoiceEnd", s |-> "", s2 |-> "", n |-> start_ms, n2 |-> end_ms]
Transcription(text) == [type |-> "Transcription", s |-> text, s2 |-> "", n |-> 0, n2 |-> 0]
KeywordEvent(kw) == [type |-> "Keyword", s |-> kw, s2 |-> "", n |-> 0, n2 |-> 0]
EmotionEvent(emotion, c) == [type |-> "Emotion", s |-> emotion, s2 |-> "", n |-> c, n2 |-> 0]
DualSignal(kw, emotion) == [type |-> "DualSignal", s |-> kw, s2 |-> emotion, n |-> 0, n2 |-> 0]

\* DetectionPipeline::new; t is the FSM with its history
PipelineNew(cfg, t) ==
    [config |-> cfg,
     vad |-> set_threshold(VadNew, cfg.vad_threshold),
     whisper_initialized |-> FALSE,
     emotion_initialized |-> FALSE,
     t |-> t,
     audio_buffer |-> 0,
     segment_buffer |-> 0,
     event_tx |-> FALSE,
     is_running |-> FALSE,
     emitted |-> <<>>]

\* DetectionPipeline::emit
emit(p, event) ==
    IF p.event_tx THEN [p EXCEPT !.emitted = Append(@, event)] ELSE p

\* process_segment, the loop over the matches
RECURSIVE feed_matches(_, _)
feed_matches(p, matches) ==
    IF matches = <<>> THEN p
    ELSE feed_matches(
            emit([p EXCEPT !.t = Feed(@, KeywordMatched(Head(matches).keyword))],
                 KeywordEvent(Head(matches).keyword)),
            Tail(matches))

run_transcription_fail_stop(p, whisper_outcome, matches) ==
    IF ~p.config.enable_transcription THEN p
    ELSE LET result == transcribe(p.whisper_initialized, whisper_outcome)
         IN  IF ~result.ok THEN [p EXCEPT !.is_running = FALSE]
             ELSE IF result.value # ""
             THEN feed_matches(emit(p, Transcription(result.value)), matches)
             ELSE p

\* process_segment, "Run transcription"
run_transcription(p, whisper_outcome, matches) ==
    IF ~p.config.enable_transcription THEN p
    ELSE LET result == transcribe(p.whisper_initialized, whisper_outcome)
         IN  IF result.ok /\ result.value # ""
             THEN feed_matches(emit(p, Transcription(result.value)), matches)
             ELSE p

\* process_segment, "Run emotion analysis"
run_emotion(p, segment_len, emotion_outcome) ==
    IF ~p.config.enable_emotion THEN p
    ELSE LET result == analyze(p.emotion_initialized, segment_len, emotion_outcome)
         IN  IF result.ok
             THEN emit([p EXCEPT !.t = Feed(@, EmotionDetected(result.value.primary,
                                                               result.value.confidence))],
                       EmotionEvent(result.value.primary, result.value.confidence))
             ELSE p

check_fsm_state_swapped(p) ==
    IF /\ is_dual_signal_confirmed(p.t.f)
       /\ p.t.f.last_keyword # None
       /\ p.t.f.last_emotion # None
    THEN emit(p, DualSignal(p.t.f.last_emotion[1], p.t.f.last_keyword[1]))
    ELSE p

\* process_segment, "Check FSM state"
check_fsm_state(p) ==
    IF /\ is_dual_signal_confirmed(p.t.f)
       /\ p.t.f.last_keyword # None
       /\ p.t.f.last_emotion # None
    THEN emit(p, DualSignal(p.t.f.last_keyword[1], p.t.f.last_emotion[1]))
    ELSE p

\* DetectionPipeline::process_segment
process_segment(p, whisper_outcome, matches, emotion_outcome) ==
    IF p.segment_buffer = 0 THEN p
    ELSE LET segment_len == p.segment_buffer
             taken == [p EXCEPT !.segment_buffer = 0]
         IN  check_fsm_state(
                run_emotion(
                    run_transcription(taken, whisper_outcome, matches),
                    segment_len, emotion_outcome))

\* process_audio, "Run VAD"
run_vad(p, frame, timestamp_ms) ==
    IF ~p.config.enable_vad THEN p
    ELSE LET r == process_frame(p.vad, frame, timestamp_ms)
             q == [p EXCEPT !.vad = r.vad]
         IN  IF r.result.is_speech
             THEN emit([q EXCEPT !.t = Feed(@, VoiceDetected)], VoiceStart(timestamp_ms))
             ELSE IF r.result.start_ms # None
             THEN emit(q, VoiceEnd(r.result.start_ms[1], timestamp_ms))
             ELSE q

\* process_audio, the number of samples that makes a segment (u32 arithmetic;
\* the product stays far below 2^32 for the configurations used here)
segment_samples(cfg) == (SampleRate * cfg.transcription_segment_ms) \div 1000

process_audio_unguarded(p, frame, timestamp_ms, whisper_outcome, matches, emotion_outcome) ==
    LET buffered == [p EXCEPT !.audio_buffer = @ + frame.len,
                              !.segment_buffer = @ + frame.len]
        q == run_vad(buffered, frame, timestamp_ms)
    IN  IF q.segment_buffer >= segment_samples(q.config)
        THEN process_segment(q, whisper_outcome, matches, emotion_outcome)
        ELSE q

\* DetectionPipeline::process_audio
process_audio(p, frame, timestamp_ms, whisper_outcome, matches, emotion_outcome) ==
    IF ~p.is_running THEN p
    ELSE LET buffered == [p EXCEPT !.audio_buffer = @ + frame.len,
                                   !.segment_buffer = @ + frame.len]
             q == run_vad(buffered, frame, timestamp_ms)
         IN  IF q.segment_buffer >= segment_samples(q.config)
             THEN process_segment(q, whisper_outcome, matches, emotion_outcome)
             ELSE q

\* DetectionPipeline::init
init(p, whisper_loaded) ==
    [p EXCEPT !.whisper_initialized = @ \/ whisper_loaded,
              !.emotion_initialized = TRUE]

\* DetectionPipeline::set_event_sender
set_event_sender(p) == [p EXCEPT !.event_tx = TRUE]

start_without_reset(p) == [p EXCEPT !.is_running = TRUE]

\* DetectionPipeline::start
start(p) == [p EXCEPT !.is_running = TRUE, !.t = Feed(@, Reset)]

stop_and_reset(p) == [p EXCEPT !.is_running = FALSE, !.t = Feed(@, Reset)]

\* DetectionPipeline::stop
stop(p) == [p EXCEPT !.is_running = FALSE]

----------------------------------------------------------------------------
(* The pipeline as one value, and back *)

Current == Tracked(fsm, last_event, kw_in_episode, emo_in_episode)

Pipeline ==
    [config |-> config,
     vad |-> vad,
     whisper_initialized |-> whisper_initialized,
     emotion_initialized |-> emotion_initialized,
     t |-> Current,
     audio_buffer |-> audio_buffer,
     segment_buffer |-> segment_buffer,
     event_tx |-> event_tx,
     is_running |-> is_running,
     emitted |-> <<>>]

\* the FSM and its history become t
BecomesFsm(t) ==
    /\ fsm' = t.f
    /\ last_event' = t.last
    /\ kw_in_episode' = t.kw
    /\ emo_in_episode' = t.emo
    /\ elapsed_ms' = IF t.changed THEN 0 ELSE elapsed_ms
    /\ fed' = t.fed

\* the pipeline becomes p
Becomes(p) ==
    /\ config' = p.config
    /\ vad' = p.vad
    /\ whisper_initialized' = p.whisper_initialized
    /\ emotion_initialized' = p.emotion_initialized
    /\ BecomesFsm(p.t)
    /\ audio_buffer' = p.audio_buffer
    /\ segment_buffer' = p.segment_buffer
    /\ event_tx' = p.event_tx
    /\ is_running' = p.is_running
    /\ emitted' = p.emitted

InitHistory ==
    /\ audio_calls = 0
    /\ last_transcribe = "none"
    /\ fed = <<>>
    /\ last_event = NoEvent
    /\ kw_in_episode = FALSE
    /\ emo_in_episode = FALSE
    /\ elapsed_ms = 0

NoScript ==
    /\ script = <<>>
    /\ pc = 0
    /\ path = <<>>

\* no call is in flight on the pipeline
NoStop ==
    /\ in_flight = None
    /\ stop_pending = FALSE

\* no frame was given to a detector of its own
NoVad ==
    /\ vad_result = None
    /\ last_frame = None
    /\ open_start = None

\* no vocabulary of its own
NoKw ==
    /\ vocabulary = None
    /\ vocab_op = None
    /\ vocab_calls = 0
    /\ found = <<>>

\* no reload and no round trip was made
NoReload ==
    /\ reload_result = None
    /\ round_trip = None

\* no segment was given to an analyzer of its own
NoEmo ==
    /\ emo_features = None
    /\ emo_result = None

\* no speaker verifier of its own
NoSpk ==
    /\ verifier = None
    /\ verify_call = None

\* no audio engine
NoEngine ==
    /\ engine = None
    /\ engine_op = None
    /\ engine_twin = None

\* no session orchestrator
NoSession ==
    /\ session = None
    /\ session_op = None

\* no session command was issued
NoCmd ==
    /\ app = None
    /\ cmds = None
    /\ captures = None

NoMore ==
    /\ NoReload
    /\ NoEmo
    /\ NoSpk
    /\ NoEngine
    /\ NoSession
    /\ NoCmd

\* the variables of the other specifications, at rest
NoOthers ==
    /\ NoStop
    /\ NoVad
    /\ fsm2 = None
    /\ NoKw
    /\ NoMore

\* the state after DetectionPipeline::new(cfg)
InitPipeline(cfg) ==
    LET p == PipelineNew(cfg, Tracked(FsmNew, NoEvent, FALSE, FALSE))
    IN  /\ config = p.config
        /\ vad = p.vad
        /\ whisper_initialized = p.whisper_initialized
        /\ emotion_initialized = p.emotion_initialized
        /\ fsm = p.t.f
        /\ audio_buffer = p.audio_buffer
        /\ segment_buffer = p.segment_buffer
        /\ event_tx = p.event_tx
        /\ is_running = p.is_running
        /\ emitted = p.emitted
        /\ InitHistory

\* time passes
Tick ==
    /\ elapsed_ms + TickMs <= MaxElapsedMs
    /\ elapsed_ms' = elapsed_ms + TickMs
    /\ UNCHANGED <<fsm, last_event, kw_in_episode, emo_in_episode, fed, pipeline_vars,
                   call_history, other_vars>>

----------------------------------------------------------------------------
(* Spec: a DetectionPipeline under any sequence of calls *)

Configs ==
    {DefaultConfig, [DefaultConfig EXCEPT !.transcription_segment_ms = 4000]}

FrameLens == {0, 64000}
Amplitudes == {0, 50, 100}
Frames ==
    {Frame(len, amp) : len \in FrameLens, amp \in Amplitudes} \ {Frame(0, amp) : amp \in Amplitudes \ {0}}
Timestamps == {0, 30}

PlaceholderText == "[Transcription placeholder - enable whisper feature]"
BattleText == "You dare challenge me in battle!"
Transcripts == {"", PlaceholderText, "The dragon", "dragon battle"}

\* what transcribe may return for a segment once the engine is initialized:
\* the placeholder text without the whisper feature, any text or an error with it
WhisperOutcomes == {Ok(text) : text \in Transcripts} \cup {Err("InferenceError")}

\* what analyze may return for a segment that is long enough: the primary
\* emotion and its score, taken here as given by the analyzer
EmotionOutcomes ==
    {Ok([primary |-> "angry", confidence |-> 80]),
     Ok([primary |-> "sad", confidence |-> 60])}

\* the lists detect may return for a text, one per iteration order of the map
DetectOutcomes ==
    [text \in Transcripts |->
        {detect(text, order) : order \in HashOrders(default_ttrpg_vocabulary, text)}]

MatchesOf(whisper_outcome) ==
    IF whisper_outcome.ok THEN DetectOutcomes[whisper_outcome.value] ELSE {<<>>}

AllMatches == UNION {MatchesOf(w) : w \in WhisperOutcomes}

Init ==
    /\ \E cfg \in Configs : InitPipeline(cfg)
    /\ NoScript
    /\ NoOthers

\* pipeline.init()
PipelineInit ==
    /\ \E whisper_loaded \in BOOLEAN : Becomes(init(Pipeline, whisper_loaded))
    /\ UNCHANGED <<call_history, other_vars>>

\* pipeline.set_event_sender(tx)
SetEventSender ==
    /\ Becomes(set_event_sender(Pipeline))
    /\ UNCHANGED <<call_history, other_vars>>

\* pipeline.set_audio_buffer(buffer) with a new, empty buffer
SetAudioBuffer ==
    /\ Becomes([Pipeline EXCEPT !.audio_buffer = 0])
    /\ UNCHANGED <<call_history, other_vars>>

\* pipeline.start()
Start ==
    /\ Becomes(start(Pipeline))
    /\ UNCHANGED <<call_history, other_vars>>

\* pipeline.stop()
Stop ==
    /\ Becomes(stop(Pipeline))
    /\ UNCHANGED <<call_history, other_vars>>

\* the analysis outcomes of a segment: what transcribe, detect and analyze return
AllAnalyses ==
    {a \in [whisper : WhisperOutcomes, matches : AllMatches, emotion : EmotionOutcomes] :
        a.matches \in MatchesOf(a.whisper)}

\* the outcomes to consider for a call: they matter only when the call reaches
\* process_segment with samples to analyse
Analyses(p, frame) ==
    IF p.is_running /\ p.segment_buffer + frame.len > 0
                    /\ p.segment_buffer + frame.len >= segment_samples(p.config)
    THEN AllAnalyses
    ELSE {CHOOSE a \in AllAnalyses : TRUE}

\* how transcribe ends in a process_audio call: "none" when the call does not
\* reach it, else "ok" or the kind of the error
TranscribeEnd(p, frame, whisper_outcome) ==
    IF p.is_running /\ p.segment_buffer + frame.len > 0
                    /\ p.segment_buffer + frame.len >= segment_samples(p.config)
                    /\ p.config.enable_transcription
    THEN LET result == transcribe(p.whisper_initialized, whisper_outcome)
         IN  IF result.ok THEN "ok" ELSE result.value
    ELSE "none"

\* pipeline.process_audio(samples, timestamp_ms)
ProcessAudio ==
    /\ \E frame \in Frames, timestamp_ms \in Timestamps :
            /\ is_running => audio_buffer + frame.len <= MaxAudioSamples
            /\ \E a \in Analyses(Pipeline, frame) :
                    /\ Becomes(process_audio(Pipeline, frame, timestamp_ms,
                                             a.whisper, a.matches, a.emotion))
                    /\ last_transcribe' = TranscribeEnd(Pipeline, frame, a.whisper)
    /\ audio_calls' = 1 - audio_calls
    /\ UNCHANGED other_vars

Next ==
    \/ PipelineInit
    \/ SetEventSender
    \/ SetAudioBuffer
    \/ Start
    \/ Stop
    \/ ProcessAudio
    \/ Tick

Spec == Init /\ [][Next]_vars

----------------------------------------------------------------------------
(* SpecFsm: a DetectionFsm under any sequence of events *)

Keywords == {"battle", "dragon", "treasure"}
EmotionNames == {"angry", "happy", "neutral"}
Confidences == {60, 61, 80, 100}

FsmEvents ==
    {VoiceDetected, VoiceEnded, Timeout, CooldownComplete, Reset}
    \cup {TranscriptionReady("battle"), SpeakerVerified(TRUE), SpeakerVerified(FALSE)}
    \cup {KeywordMatched(k) : k \in Keywords}
    \cup {Signal1Triggered(k) : k \in Keywords}
    \cup {EmotionDetected(e, c) : e \in EmotionNames, c \in Confidences}
    \cup {Signal2Triggered(e, c) : e \in EmotionNames, c \in Confidences}
    \cup {DualSignalConfirmed(k, e) : k \in Keywords, e \in EmotionNames}

InitFsm ==
    /\ InitPipeline(DefaultConfig)
    /\ NoScript
    /\ NoOthers

\* fsm.process_event(&ev) for any event
FsmProcessEvent ==
    /\ \E ev \in FsmEvents : BecomesFsm(Feed(Current, ev))
    /\ UNCHANGED <<pipeline_vars, call_history, other_vars>>

\* fsm.set_mode(m)
FsmSetMode ==
    /\ \E m \in DetectionModes : fsm' = set_mode(fsm, m)
    /\ UNCHANGED <<fsm_history, pipeline_vars, call_history, other_vars>>

NextFsm == FsmProcessEvent \/ FsmSetMode \/ Tick

SpecFsm == InitFsm /\ [][NextFsm]_vars

----------------------------------------------------------------------------
(* SpecSeq: a fresh DetectionFsm fed voice, keyword and emotion, in both orders *)

Scripts ==
    {<<VoiceDetected, KeywordMatched(k), EmotionDetected(e, c)>> :
        k \in Keywords, e \in EmotionNames, c \in Confidences}
    \cup
    {<<VoiceDetected, EmotionDetected(e, c), KeywordMatched(k)>> :
        k \in Keywords, e \in EmotionNames, c \in Confidences}

InitSeq ==
    /\ InitPipeline(DefaultConfig)
    /\ script \in Scripts
    /\ pc = 0
    /\ path = <<FsmNew.state>>
    /\ NoOthers

\* the next event of the script goes to process_event
SeqStep ==
    /\ pc < Len(script)
    /\ BecomesFsm(Feed(Current, script[pc + 1]))
    /\ pc' = pc + 1
    /\ path' = Append(path, fsm'.state)
    /\ UNCHANGED <<pipeline_vars, call_history, script, stop_vars, vad_vars, fsm2, kw_vars, more_vars>>

NextSeq == SeqStep

SpecSeq == InitSeq /\ [][NextSeq]_vars

----------------------------------------------------------------------------
(* SpecE2E: a pipeline with the default configuration whose segments are      *)
(* transcribed as BattleText and classified as angry with confidence 0.8      *)

BattleAnalyses ==
    {[whisper |-> Ok(BattleText), matches |-> detect(BattleText, order),
      emotion |-> Ok([primary |-> "angry", confidence |-> 80])] :
        order \in HashOrders(default_ttrpg_vocabulary, BattleText)}

InitE2E ==
    /\ InitPipeline(DefaultConfig)
    /\ NoScript
    /\ NoOthers

\* pipeline.process_audio(samples, timestamp_ms) on the battle segment
BattleProcessAudio ==
    /\ \E frame \in Frames, timestamp_ms \in Timestamps :
            /\ is_running => audio_buffer + frame.len <= MaxAudioSamples
            /\ \E a \in BattleAnalyses :
                    /\ Becomes(process_audio(Pipeline, frame, timestamp_ms,
                                             a.whisper, a.matches, a.emotion))
                    /\ last_transcribe' = TranscribeEnd(Pipeline, frame, a.whisper)
    /\ audio_calls' = 1 - audio_calls
    /\ UNCHANGED other_vars

NextE2E ==
    \/ PipelineInit
    \/ SetEventSender
    \/ Start
    \/ BattleProcessAudio

SpecE2E == InitE2E /\ [][NextE2E]_vars

----------------------------------------------------------------------------
(* SpecStop: the pipeline of SpecE2E with a second caller.  Every method of   *)
(* DetectionPipeline takes &mut self, so a call made while process_audio is   *)
(* analysing a segment waits until that call has returned.                    *)

\* does process_audio(frame) reach process_segment with samples to analyse
ReachesSegment(p, frame) ==
    /\ p.is_running
    /\ p.segment_buffer + frame.len > 0
    /\ p.segment_buffer + frame.len >= segment_samples(p.config)

InitStop ==
    /\ InitPipeline(DefaultConfig)
    /\ NoScript
    /\ NoOthers

\* a call made while no other call holds the pipeline
WhenFree(call) == in_flight = None /\ call

\* pipeline.process_audio(samples, timestamp_ms) enters process_segment: the
\* call holds the pipeline until its analyses are done
BeginSegment ==
    /\ in_flight = None
    /\ \E frame \in Frames, timestamp_ms \in Timestamps, a \in BattleAnalyses :
            /\ ReachesSegment(Pipeline, frame)
            /\ audio_buffer + frame.len <= MaxAudioSamples
            /\ in_flight' = Some([after |-> process_audio(Pipeline, frame, timestamp_ms,
                                                          a.whisper, a.matches, a.emotion),
                                  transcribe_end |-> TranscribeEnd(Pipeline, frame, a.whisper)])
    /\ UNCHANGED <<fsm, fsm_history, pipeline_vars, call_history, script_vars,
                   stop_pending, vad_vars, fsm2, kw_vars, more_vars>>

\* the analyses are done: process_segment delivers them and process_audio returns
FinishSegment ==
    /\ in_flight # None
    /\ Becomes(in_flight[1].after)
    /\ last_transcribe' = in_flight[1].transcribe_end
    /\ audio_calls' = 1 - audio_calls
    /\ in_flight' = None
    /\ UNCHANGED <<script_vars, stop_pending, vad_vars, fsm2, kw_vars, more_vars>>

\* pipeline.stop() is called: it runs at once on a free pipeline, else it waits
StopCall ==
    /\ ~stop_pending
    /\ IF in_flight = None
       THEN /\ Becomes(stop(Pipeline))
            /\ UNCHANGED <<call_history, other_vars>>
       ELSE /\ stop_pending' = TRUE
            /\ UNCHANGED <<fsm, fsm_history, pipeline_vars, call_history, script_vars,
                           in_flight, vad_vars, fsm2, kw_vars, more_vars>>

\* the waiting pipeline.stop() gets the pipeline and runs
StopRuns ==
    /\ stop_pending
    /\ in_flight = None
    /\ Becomes(stop(Pipeline))
    /\ stop_pending' = FALSE
    /\ UNCHANGED <<call_history, script_vars, in_flight, vad_vars, fsm2, kw_vars, more_vars>>

NextStop ==
    \/ WhenFree(PipelineInit)
    \/ WhenFree(SetEventSender)
    \/ WhenFree(Start)
    \/ WhenFree(BattleProcessAudio)
    \/ BeginSegment
    \/ FinishSegment
    \/ StopCall
    \/ StopRuns

SpecStop == InitStop /\ [][NextStop]_vars

----------------------------------------------------------------------------
(* SpecVad: a VoiceActivityDetector under any sequence of frames *)

VadAmplitudes == {0, 5, 50, 51, 100, 150}
VadFrames ==
    {Frame(0, 0)} \cup {Frame(len, amp) : len \in {1, 160}, amp \in VadAmplitudes}
VadTimestamps == {0, 30, 60}
VadThresholds == {0, 10, 50, 100}

InitVad ==
    /\ InitPipeline(DefaultConfig)
    /\ NoScript
    /\ NoOthers

\* vad.process_frame(samples, timestamp_ms); open_start follows the results:
\* set by one that carries a start alone, cleared by one that carries an end
VadProcessFrame ==
    /\ \E frame \in VadFrames, timestamp_ms \in VadTimestamps :
            LET r == process_frame(vad, frame, timestamp_ms)
            IN  /\ vad' = r.vad
                /\ vad_result' = Some(r.result)
                /\ last_frame' = Some(frame)
                /\ open_start' =
                        IF r.result.end_ms # None THEN None
                        ELSE IF r.result.start_ms # None THEN r.result.start_ms
                        ELSE open_start
    /\ UNCHANGED <<fsm, fsm_history, config, whisper_initialized, emotion_initialized,
                   audio_buffer, segment_buffer, event_tx, is_running, emitted,
                   call_history, script_vars, stop_vars, fsm2, kw_vars, more_vars>>

\* vad.set_threshold(threshold)
VadSetThreshold ==
    /\ \E threshold \in VadThresholds : vad' = set_threshold(vad, threshold)
    /\ UNCHANGED <<fsm, fsm_history, config, whisper_initialized, emotion_initialized,
                   audio_buffer, segment_buffer, event_tx, is_running, emitted,
                   call_history, other_vars>>

NextVad == VadProcessFrame \/ VadSetThreshold

SpecVad == InitVad /\ [][NextVad]_vars

----------------------------------------------------------------------------
(* SpecMode: two DetectionFsm instances that are given the same events and    *)
(* whose modes are set independently                                          *)

InitMode ==
    /\ InitPipeline(DefaultConfig)
    /\ NoScript
    /\ NoStop
    /\ NoVad
    /\ fsm2 = FsmNew
    /\ NoKw
    /\ NoMore

\* process_event(&ev) on both instances
ModeProcessEvent ==
    /\ \E ev \in FsmEvents :
            /\ BecomesFsm(Feed(Current, ev))
            /\ fsm2' = process_event(fsm2, ev)
    /\ UNCHANGED <<pipeline_vars, call_history, script_vars, stop_vars, vad_vars, kw_vars, more_vars>>

\* set_mode(m) on the first instance
ModeSetFirst ==
    /\ \E m \in DetectionModes : fsm' = set_mode(fsm, m)
    /\ UNCHANGED <<fsm_history, pipeline_vars, call_history, other_vars>>

\* set_mode(m) on the second instance
ModeSetSecond ==
    /\ \E m \in DetectionModes : fsm2' = set_mode(fsm2, m)
    /\ UNCHANGED <<fsm, fsm_history, pipeline_vars, call_history, script_vars,
                   stop_vars, vad_vars, kw_vars, more_vars>>

NextMode == ModeProcessEvent \/ ModeSetFirst \/ ModeSetSecond

SpecMode == InitMode /\ [][NextMode]_vars

----------------------------------------------------------------------------
(* SpecKw: a KeywordVocabulary under add_keyword, remove_keyword and search   *)

\* the keywords given to add_keyword: two share the variation "fight", one has
\* an upper-case word, two have a priority
KwPool ==
    {KeywordOf("battle", "combat", <<"battle", "fight">>, Some("angry"), 0),
     KeywordOf("fight", "combat", <<"fight", "brawl">>, None, 9),
     KeywordOf("Dragon", "creature", <<"Dragon">>, Some("fearful"), 1),
     Keyword("merchant", "social", <<"trader">>, None)}

\* the words given to remove_keyword
KwWords == {"battle", "FIGHT", "dragon", "gold"}

\* the texts given to search
KwTexts == {"Dragon FIGHT", "battle brawl", "drag me"}

VocabOp(op, arg, order) == [op |-> op, arg |-> arg, order |-> order]

InitKw ==
    /\ InitPipeline(DefaultConfig)
    /\ NoScript
    /\ NoStop
    /\ NoVad
    /\ fsm2 = None
    /\ vocabulary = VocabularyNew
    /\ vocab_op = VocabOp("new", "", <<>>)
    /\ vocab_calls = 0
    /\ found = <<>>
    /\ NoMore

\* everything that belongs to a pipeline, its detectors or their histories
det_frame == <<fsm, fsm_history, pipeline_vars, call_history, script_vars, stop_vars,
               vad_vars, fsm2>>
kw_frame == <<det_frame, more_vars>>

\* vocabulary.add_keyword(keyword)
KwAdd ==
    /\ vocabulary.version < MaxVersion
    /\ \E keyword \in KwPool :
            /\ vocabulary' = add_keyword(vocabulary, keyword)
            /\ vocab_op' = VocabOp("add", keyword.word, <<>>)
    /\ vocab_calls' = 1 - vocab_calls
    /\ UNCHANGED <<kw_frame, found>>

\* vocabulary.remove_keyword(word)
KwRemove ==
    /\ vocabulary.version < MaxVersion
    /\ \E word \in KwWords :
            /\ vocabulary' = remove_keyword(vocabulary, word)
            /\ vocab_op' = VocabOp("remove", word, <<>>)
    /\ vocab_calls' = 1 - vocab_calls
    /\ UNCHANGED <<kw_frame, found>>

\* vocabulary.search(text), the map iterating in some order
KwSearch ==
    /\ \E text \in KwTexts :
            \E order \in HashOrders(vocabulary, text) :
                /\ found' = search(vocabulary, text, order)
                /\ vocab_op' = VocabOp("search", text, order)
    /\ vocab_calls' = 1 - vocab_calls
    /\ UNCHANGED <<kw_frame, vocabulary>>

NextKw == KwAdd \/ KwRemove \/ KwSearch

SpecKw == InitKw /\ [][NextKw]_vars

----------------------------------------------------------------------------
(* KeywordDetector: vocabulary files (detection/keyword.rs)                 *)
(*                                                                          *)
(* A vocabulary file is what the two steps that read it make of it:         *)
(* read_to_string fails ("unreadable"), serde_json finds no list of         *)
(* keywords in the text ("malformed"), or the text lists keywords ("json"). *)
(* A Keyword derives Serialize and Deserialize, so the text of a keyword    *)
(* list carries the five fields of each entry, in the order of the list.    *)

Json(keywords) == [kind |-> "json", keywords |-> keywords]
Malformed == [kind |-> "malformed", keywords |-> <<>>]
Unreadable == [kind |-> "unreadable", keywords |-> <<>>]

\* std::fs::read_to_string(path)?
read_to_string(file) ==
    IF file.kind = "unreadable" THEN Err("Io") ELSE Ok(file)

\* KeywordVocabulary::from_json
from_json(json) ==
    IF json.kind = "malformed" THEN Err("Serialization")
    ELSE Ok(AddAll(VocabularyNew, json.keywords))

\* KeywordVocabulary::to_json, the map giving its values in the order of keys
to_json(v, order) ==
    Ok(Json([i \in 1..Len(order) |-> v.keywords[order[i]]]))

\* KeywordDetector::set_vocabulary
set_vocabulary(active, v) == v

\* KeywordDetector::load_vocabulary
load_vocabulary(active, file) ==
    LET content == read_to_string(file)
    IN  IF ~content.ok THEN [vocabulary |-> active, result |-> content]
        ELSE LET vocab == from_json(content.value)
             IN  IF ~vocab.ok THEN [vocabulary |-> active, result |-> vocab]
                 ELSE [vocabulary |-> vocab.value, result |-> Ok("unit")]

reload_if_changed_not_older(active, file) ==
    LET content == read_to_string(file)
    IN  IF ~content.ok THEN [vocabulary |-> active, result |-> content]
        ELSE LET new_vocab == from_json(content.value)
             IN  IF ~new_vocab.ok THEN [vocabulary |-> active, result |-> new_vocab]
                 ELSE IF new_vocab.value.version >= active.version
                      THEN [vocabulary |-> new_vocab.value, result |-> Ok(TRUE)]
                      ELSE [vocabulary |-> active, result |-> Ok(FALSE)]

\* KeywordDetector::reload_if_changed
reload_if_changed(active, file) ==
    LET content == read_to_string(file)
    IN  IF ~content.ok THEN [vocabulary |-> active, result |-> content]
        ELSE LET new_vocab == from_json(content.value)
             IN  IF ~new_vocab.ok THEN [vocabulary |-> active, result |-> new_vocab]
                 ELSE IF new_vocab.value.version > active.version
                      THEN [vocabulary |-> new_vocab.value, result |-> Ok(TRUE)]
                      ELSE [vocabulary |-> active, result |-> Ok(FALSE)]

----------------------------------------------------------------------------
(* Specification SpecReload: a KeywordDetector whose vocabulary is set,     *)
(* loaded and reloaded from files                                           *)

\* a vocabulary file lists at most this many keywords
MaxFileKeywords == 2

RECURSIVE SeqsUpTo(_, _)
SeqsUpTo(S, n) ==
    IF n = 0 THEN {<<>>}
    ELSE SeqsUpTo(S, n - 1) \cup
         {seq \o <<x>> : seq \in {q \in SeqsUpTo(S, n - 1) : Len(q) = n - 1}, x \in S}

\* the keywords a vocabulary file lists: the two that share the variation "fight"
FilePool == {keyword \in KwPool : keyword.category = "combat"}

KeywordLists == SeqsUpTo(FilePool, MaxFileKeywords)
Files == {Unreadable, Malformed} \cup {Json(keywords) : keywords \in KeywordLists}

ReloadCall(file, result) == [file |-> file, result |-> result]

\* KeywordDetector::new
InitReload ==
    /\ InitPipeline(DefaultConfig)
    /\ NoScript
    /\ NoStop
    /\ NoVad
    /\ fsm2 = None
    /\ vocabulary = VocabularyNew
    /\ vocab_op = VocabOp("new", "", <<>>)
    /\ vocab_calls = 0
    /\ found = <<>>
    /\ NoMore

reload_frame == <<det_frame, found, round_trip, emo_vars, spk_vars, engine_vars,
                  session_vars, cmd_vars>>

\* detector.set_vocabulary(v), v built by add_keyword calls
DetSetVocabulary ==
    /\ \E keywords \in KeywordLists :
            vocabulary' = set_vocabulary(vocabulary, AddAll(VocabularyNew, keywords))
    /\ vocab_op' = VocabOp("set", "", <<>>)
    /\ vocab_calls' = 1 - vocab_calls
    /\ reload_result' = None
    /\ UNCHANGED reload_frame

\* detector.load_vocabulary(path)
DetLoadVocabulary ==
    /\ \E file \in Files :
            LET after == load_vocabulary(vocabulary, file)
            IN  /\ vocabulary' = after.vocabulary
                /\ reload_result' = Some(ReloadCall(file, after.result))
    /\ vocab_op' = VocabOp("load", "", <<>>)
    /\ vocab_calls' = 1 - vocab_calls
    /\ UNCHANGED reload_frame

\* detector.reload_if_changed(path)
DetReloadIfChanged ==
    /\ \E file \in Files :
            LET after == reload_if_changed(vocabulary, file)
            IN  /\ vocabulary' = after.vocabulary
                /\ reload_result' = Some(ReloadCall(file, after.result))
    /\ vocab_op' = VocabOp("reload", "", <<>>)
    /\ vocab_calls' = 1 - vocab_calls
    /\ UNCHANGED reload_frame

NextReload == DetSetVocabulary \/ DetLoadVocabulary \/ DetReloadIfChanged

SpecReload == InitReload /\ [][NextReload]_vars

----------------------------------------------------------------------------
(* Specification SpecJson: a vocabulary built by add_keyword calls and      *)
(* written to JSON and read back                                            *)

\* the keywords added: "fight" is a variation of one and the only variation
\* of another
JsonPool ==
    {KeywordOf("battle", "combat", <<"battle", "fight">>, Some("angry"), 0),
     Keyword("fight", "combat", <<>>, None),
     KeywordOf("Dragon", "creature", <<"Dragon">>, Some("fearful"), 1)}

RoundTrip(order, json, v) == [order |-> order, json |-> json, vocabulary |-> v]

InitJson == InitReload

json_frame == <<det_frame, found, reload_result, emo_vars, spk_vars, engine_vars,
                session_vars, cmd_vars>>

\* vocabulary.add_keyword(keyword)
JsonAdd ==
    /\ vocabulary.version < MaxVersion
    /\ \E keyword \in JsonPool :
            /\ vocabulary' = add_keyword(vocabulary, keyword)
            /\ vocab_op' = VocabOp("add", keyword.word, <<>>)
    /\ vocab_calls' = 1 - vocab_calls
    /\ round_trip' = None
    /\ UNCHANGED json_frame

\* KeywordVocabulary::from_json(&vocabulary.to_json()?), the map giving its
\* values in some order
JsonRoundTrip ==
    /\ \E order \in Orders(DOMAIN vocabulary.keywords) :
            LET json == to_json(vocabulary, order)
            IN  round_trip' = Some(RoundTrip(order, json.value, from_json(json.value)))
    /\ vocab_op' = VocabOp("round_trip", "", <<>>)
    /\ vocab_calls' = 1 - vocab_calls
    /\ UNCHANGED <<vocabulary, json_frame>>

NextJson == JsonAdd \/ JsonRoundTrip

SpecJson == InitJson /\ [][NextJson]_vars

----------------------------------------------------------------------------
(* inference/emotion.rs                                                     *)
(*                                                                          *)
(* AudioFeatures are integers: rms, zcr and energy_variance in thousandths, *)
(* pitch_hz in Hz.  A normalised feature is an integer in 0..Norm that      *)
(* stands for the f32 value x/Norm, so that pitch_hz / 300 is exact.  A     *)
(* score is the fraction num/den, computed exactly.                         *)

\* Emotion::all(), the variants in the order of their declaration
EmotionAll == <<"neutral", "happy", "sad", "angry", "fearful", "surprised", "disgusted">>

AudioFeatures(rms, zcr, pitch_hz, energy_variance) ==
    [rms |-> rms, zcr |-> zcr, pitch_hz |-> pitch_hz, energy_variance |-> energy_variance]

\* extract_features of a segment of zeros: calculate_rms, calculate_zcr and
\* calculate_energy_variance give 0.0, estimate_pitch_autocorr finds no
\* correlation above 0.3 and gives 0.0
SilentFeatures == AudioFeatures(0, 0, 0, 0)

Norm == 300

\* the raw scores are multiples of 1/ScoreUnit
ScoreUnit == 30000000

\* the seven heuristic scores before normalisation, in units of 1/ScoreUnit
raw_scores(features) ==
    LET energy == Clamp(features.rms * 3, 0, Norm)               \* rms * 10.0
        zcr_norm == Clamp(features.zcr * 3, 0, Norm)             \* zcr * 10.0
        pitch_norm == Clamp(features.pitch_hz, 0, Norm)          \* pitch_hz / 300.0
        variance == Clamp(features.energy_variance * 15, 0, Norm) \* energy_variance * 50.0
        quiet == Norm - energy
        low == Norm - pitch_norm
        stable == Norm - variance
    IN  [emotion \in Range(EmotionAll) |->
            CASE emotion = "neutral" -> 24 * (1000 - energy) * (1000 - variance)
              [] emotion = "happy" -> (4 * energy + 3 * pitch_norm + 2 * variance) * 10000
              [] emotion = "sad" -> (5 * quiet + 3 * low + 2 * stable) * 10000
              [] emotion = "angry" -> (5 * energy + 3 * pitch_norm + 4 * variance) * 10000
              [] emotion = "fearful" -> (2 * quiet + 4 * pitch_norm + 5 * variance) * 10000
              [] emotion = "surprised" -> (6 * variance + 3 * pitch_norm) * 10000
              [] emotion = "disgusted" -> (4 * quiet + 3 * low) * 10000]

RECURSIVE SumOver(_, _)
SumOver(fn, seq) == IF seq = <<>> THEN 0 ELSE fn[Head(seq)] + SumOver(fn, Tail(seq))

\* EmotionAnalyzer::calculate_emotion_scores: every raw score over their total
calculate_emotion_scores(features) ==
    LET raw == raw_scores(features)
        total == SumOver(raw, EmotionAll)
    IN  [emotion \in Range(EmotionAll) |-> [num |-> raw[emotion], den |-> total]]

\* f32 partial_cmp on two scores: a > b (denominators are positive, and two
\* scores of one analysis share theirs)
score_greater(a, b) ==
    IF a.den = b.den THEN a.num > b.num ELSE a.num * b.den > b.num * a.den

\* sort_by(|a, b| b.1.partial_cmp(a.1)): stable, highest score first; an entry
\* goes before the first entry whose score is lower
RECURSIVE InsertByScore(_, _, _)
InsertByScore(scores, sorted, emotion) ==
    IF sorted = <<>> THEN <<emotion>>
    ELSE IF score_greater(scores[emotion], scores[Head(sorted)])
         THEN <<emotion>> \o sorted
         ELSE <<Head(sorted)>> \o InsertByScore(scores, Tail(sorted), emotion)

RECURSIVE SortByScore(_, _, _)
SortByScore(scores, sorted, rest) ==
    IF rest = <<>> THEN sorted
    ELSE SortByScore(scores, InsertByScore(scores, sorted, Head(rest)), Tail(rest))

EmotionResult(primary, confidence, scores) ==
    [primary |-> primary, confidence |-> confidence, scores |-> scores]

\* EmotionAnalyzer::analyze after extract_features, the HashMap of scores
\* iterating in the given order
analyze_features(initialized, samples_len, features, order) ==
    LET scores == calculate_emotion_scores(features)
        sorted == SortByScore(scores, <<>>, order)
    IN  analyze(initialized, samples_len,
                Ok(EmotionResult(sorted[1], scores[sorted[1]], scores)))

----------------------------------------------------------------------------
(* Specification SpecEmo: an EmotionAnalyzer given segments                 *)

\* the iteration orders of the score map that analyze can tell apart: sorted[0]
\* is the first of the top-scoring emotions in iteration order, and every
\* emotion comes first in one of these orders
EmotionOrders ==
    {[i \in 1..7 |-> EmotionAll[((i + shift - 1) % 7) + 1]] : shift \in 0..6}

\* the features of the segments analysed, the silent segment among them
EmoFeatures ==
    {AudioFeatures(rms, zcr, pitch_hz, energy_variance) :
        rms \in {0, 10, 50, 200}, zcr \in {0, 50},
        pitch_hz \in {0, 174, 400}, energy_variance \in {0, 10, 40}}

EmoLengths == {799, 16000}

Segment(samples_len, features) == [samples_len |-> samples_len, features |-> features]

\* EmotionAnalyzer::new
InitEmo ==
    /\ InitPipeline(DefaultConfig)
    /\ NoScript
    /\ NoStop
    /\ NoVad
    /\ fsm2 = None
    /\ NoKw
    /\ NoMore

emo_frame == <<fsm, fsm_history, config, vad, whisper_initialized, audio_buffer,
               segment_buffer, event_tx, is_running, emitted, call_history,
               script_vars, stop_vars, vad_vars, fsm2, kw_vars, reload_vars, spk_vars,
               engine_vars, session_vars, cmd_vars>>

\* analyzer.init()
EmoInit ==
    /\ emotion_initialized' = TRUE
    /\ UNCHANGED <<emo_frame, emo_vars>>

\* analyzer.analyze(&samples, sample_rate)
EmoAnalyze ==
    /\ \E samples_len \in EmoLengths, features \in EmoFeatures, order \in EmotionOrders :
            /\ emo_features' = Some(Segment(samples_len, features))
            /\ emo_result' =
                    Some(analyze_features(emotion_initialized, samples_len, features, order))
    /\ UNCHANGED <<emo_frame, emotion_initialized>>

NextEmo == EmoInit \/ EmoAnalyze

SpecEmo == InitEmo /\ [][NextEmo]_vars

----------------------------------------------------------------------------
(* detection/speaker.rs                                                     *)
(*                                                                          *)
(* An embedding is a sequence of integers.  A cosine similarity is kept as  *)
(* the pair (dot, norm2) that stands for dot / sqrt(norm2), norm2 being the *)
(* product of the two squared norms, so that similarities are compared      *)
(* exactly; 0.0 is (0, 1).  The threshold is in hundredths.                 *)

SPEAKER_SIMILARITY_THRESHOLD == 75

\* SpeakerEmbedding::new
SpeakerEmbedding(data) == [data |-> data, dimension |-> Len(data)]

Similarity(dot, norm2) == [dot |-> dot, norm2 |-> norm2]
ZeroSimilarity == Similarity(0, 1)

\* iter().zip().map(|(a, b)| a * b).sum(): the sum over the common prefix
RECURSIVE DotProduct(_, _)
DotProduct(a, b) ==
    IF a = <<>> \/ b = <<>> THEN 0
    ELSE Head(a) * Head(b) + DotProduct(Tail(a), Tail(b))

\* SpeakerEmbedding::cosine_similarity
cosine_similarity(self, other) ==
    IF self.data = <<>> \/ other.data = <<>> THEN ZeroSimilarity
    ELSE LET dot_product == DotProduct(self.data, other.data)
             norm_a2 == DotProduct(self.data, self.data)
             norm_b2 == DotProduct(other.data, other.data)
         IN  IF norm_a2 = 0 \/ norm_b2 = 0 THEN ZeroSimilarity
             ELSE Similarity(dot_product, norm_a2 * norm_b2)

\* f32 comparison a > b of two similarities
similarity_greater(a, b) ==
    IF a.dot >= 0 /\ b.dot >= 0 THEN a.dot * a.dot * b.norm2 > b.dot * b.dot * a.norm2
    ELSE IF a.dot < 0 /\ b.dot < 0 THEN a.dot * a.dot * b.norm2 < b.dot * b.dot * a.norm2
    ELSE a.dot >= 0

\* f32 comparison similarity >= threshold, the threshold in 0..100
similarity_at_least(a, threshold) ==
    a.dot >= 0 /\ 10000 * a.dot * a.dot >= threshold * threshold * a.norm2

\* VoiceProfile::new
VoiceProfile(id, embedding) == [id |-> id, embedding |-> embedding]

SpeakerVerificationResult(is_verified, similarity, speaker_id) ==
    [is_verified |-> is_verified, similarity |-> similarity, speaker_id |-> speaker_id]

\* SpeakerVerifier::new
SpeakerVerifierNew ==
    [threshold |-> SPEAKER_SIMILARITY_THRESHOLD, enrolled_profiles |-> <<>>]

\* SpeakerVerifier::set_threshold
speaker_set_threshold(v, threshold) == [v EXCEPT !.threshold = Clamp(threshold, 0, 100)]

\* SpeakerVerifier::enroll
enroll(v, profile) == [v EXCEPT !.enrolled_profiles = Append(@, profile)]

\* SpeakerVerifier::remove_profile
remove_profile(v, profile_id) ==
    [v EXCEPT !.enrolled_profiles = SelectSeq(@, LAMBDA p : p.id # profile_id)]

\* the loop of verify over the profiles: best_match after the profiles of rest
RECURSIVE best_match_least(_, _, _)
best_match_least(embedding, best_match, rest) ==
    IF rest = <<>> THEN best_match
    ELSE LET profile == Head(rest)
             similarity == cosine_similarity(embedding, profile.embedding)
         IN  best_match_least(embedding,
                IF best_match = None \/ similarity_greater(best_match[1][2], similarity)
                THEN Some(<<profile.id, similarity>>)
                ELSE best_match,
                Tail(rest))

RECURSIVE best_match_of(_, _, _)
best_match_of(embedding, best_match, rest) ==
    IF rest = <<>> THEN best_match
    ELSE LET profile == Head(rest)
             similarity == cosine_similarity(embedding, profile.embedding)
         IN  best_match_of(embedding,
                IF best_match = None \/ similarity_greater(similarity, best_match[1][2])
                THEN Some(<<profile.id, similarity>>)
                ELSE best_match,
                Tail(rest))

verify_least_similar(v, embedding) ==
    IF v.enrolled_profiles = <<>>
    THEN SpeakerVerificationResult(FALSE, ZeroSimilarity, None)
    ELSE LET best_match == best_match_least(embedding, None, v.enrolled_profiles)
         IN  IF best_match # None
             THEN SpeakerVerificationResult(
                    similarity_at_least(best_match[1][2], v.threshold),
                    best_match[1][2], Some(best_match[1][1]))
             ELSE SpeakerVerificationResult(FALSE, ZeroSimilarity, None)

\* SpeakerVerifier::verify
verify(v, embedding) ==
    IF v.enrolled_profiles = <<>>
    THEN SpeakerVerificationResult(FALSE, ZeroSimilarity, None)
    ELSE LET best_match == best_match_of(embedding, None, v.enrolled_profiles)
         IN  IF best_match # None
             THEN SpeakerVerificationResult(
                    similarity_at_least(best_match[1][2], v.threshold),
                    best_match[1][2], Some(best_match[1][1]))
             ELSE SpeakerVerificationResult(FALSE, ZeroSimilarity, None)

----------------------------------------------------------------------------
(* Specification SpecSpk: a SpeakerVerifier whose threshold is set, that    *)
(* enrolls and removes profiles and verifies candidates                     *)

\* at most this many profiles are enrolled
MaxProfiles == 2

\* the embeddings enrolled and verified: empty, all zeros, unit vectors, one
\* between them, one opposite
Embeddings ==
    {SpeakerEmbedding(data) :
        data \in {<<>>, <<0, 0>>, <<1, 0>>, <<0, 1>>, <<1, 1>>, <<-1, 0>>}}

ProfileIds == {"gm", "guest"}
SpkThresholds == {-10, 0, 75, 100, 150}

VerifyCall(candidate, result) == [candidate |-> candidate, result |-> result]

InitSpk ==
    /\ InitPipeline(DefaultConfig)
    /\ NoScript
    /\ NoStop
    /\ NoVad
    /\ fsm2 = None
    /\ NoKw
    /\ NoReload
    /\ NoEmo
    /\ verifier = SpeakerVerifierNew
    /\ verify_call = None
    /\ NoEngine
    /\ NoSession
    /\ NoCmd

spk_frame == <<det_frame, kw_vars, reload_vars, emo_vars, engine_vars, session_vars, cmd_vars>>

\* verifier.set_threshold(threshold)
SpkSetThreshold ==
    /\ \E threshold \in SpkThresholds :
            verifier' = speaker_set_threshold(verifier, threshold)
    /\ verify_call' = None
    /\ UNCHANGED spk_frame

\* verifier.enroll(profile)
SpkEnroll ==
    /\ Len(verifier.enrolled_profiles) < MaxProfiles
    /\ \E id \in ProfileIds, embedding \in Embeddings :
            verifier' = enroll(verifier, VoiceProfile(id, embedding))
    /\ verify_call' = None
    /\ UNCHANGED spk_frame

\* verifier.remove_profile(profile_id)
SpkRemoveProfile ==
    /\ \E id \in ProfileIds : verifier' = remove_profile(verifier, id)
    /\ verify_call' = None
    /\ UNCHANGED spk_frame

\* verifier.verify(&candidate)
SpkVerify ==
    /\ \E candidate \in Embeddings :
            verify_call' = Some(VerifyCall(candidate, verify(verifier, candidate)))
    /\ UNCHANGED <<verifier, spk_frame>>

NextSpk == SpkSetThreshold \/ SpkEnroll \/ SpkRemoveProfile \/ SpkVerify

SpecSpk == InitSpk /\ [][NextSpk]_vars

----------------------------------------------------------------------------
(* audio/engine.rs                                                          *)
(*                                                                          *)
(* The volumes of EngineConfig are in hundredths.  The volume of a rodio    *)
(* Sink is an integer in units of 1/SinkScale, fine enough to hold a        *)
(* product of two config volumes attenuated by ducking_amount MaxDucks + 1  *)
(* times without rounding.  A Sink is the track it plays, its volume and    *)
(* whether it is paused; ducked counts, as history, the duck() calls that   *)
(* scaled its volume since a volume was last set on it.                     *)

SinkScale == 100000000

\* a sink volume times an f32 factor given in hundredths
Times(volume, hundredths) == (volume \div 100) * hundredths

\* an f32 in hundredths as a sink volume
AsVolume(hundredths) == hundredths * (SinkScale \div 100)

Track(id, is_looping) == [id |-> id, is_looping |-> is_looping]
\* PlayingTrack, but for started_at_ms, the wall clock read when it is made
PlayingTrack(track) == [track |-> track, is_looping |-> track.is_looping]
Sink(track, volume) == [track |-> track, volume |-> volume, paused |-> FALSE, ducked |-> 0]

\* EngineConfig::default
EngineConfigDefault ==
    [master_volume |-> 100, music_volume |-> 70, sfx_volume |-> 80,
     crossfade_type |-> "Musical", ducking_amount |-> 30, ducking_fade_ms |-> 200]

\* CrossfadeType::duration_ms
duration_ms(crossfade_type) ==
    CASE crossfade_type = "Instant" -> 0
      [] crossfade_type = "Quick" -> 500
      [] crossfade_type = "Musical" -> 2000
      [] crossfade_type = "Long" -> 5000

\* AudioEngine::new, the output stream opened
EngineNew ==
    [music_sink |-> None, config |-> EngineConfigDefault, state |-> "Idle",
     current_track |-> None, is_ducking |-> FALSE]

Done(e, result) == [engine |-> e, result |-> result]

\* AudioEngine::calculate_music_volume
calculate_music_volume(e) ==
    LET base_volume == Times(AsVolume(e.config.music_volume), e.config.master_volume)
    IN  IF e.is_ducking THEN Times(base_volume, e.config.ducking_amount) ELSE base_volume

\* Sink::set_volume
sink_set_volume(sink, volume) == [sink EXCEPT !.volume = volume, !.ducked = 0]

\* AudioEngine::update_music_volume
update_music_volume(e) ==
    IF e.music_sink # None
    THEN [e EXCEPT !.music_sink = Some(sink_set_volume(@[1], calculate_music_volume(e)))]
    ELSE e

\* AudioEngine::stop_music
stop_music(e) ==
    [e EXCEPT !.music_sink = None, !.state = "Idle", !.current_track = None]

\* what opening a track gives: Sink::try_new fails, File::open fails,
\* Decoder::new fails, or the source is appended to a new sink
LoadError(load) ==
    CASE load = "no_sink" -> Err("Playback")
      [] load = "no_file" -> Err("Audio")
      [] load = "bad_file" -> Err("Audio")

play_track_loads_first(e, track, load) ==
    LET stopped == stop_music(e)
    IN  IF load # "ok" THEN Done(e, LoadError(load))
        ELSE Done([stopped EXCEPT
                        !.music_sink = Some(Sink(track.id, calculate_music_volume(stopped))),
                        !.state = "Playing",
                        !.current_track = Some(PlayingTrack(track))],
                  Ok("unit"))

\* AudioEngine::play_track
play_track(e, track, load) ==
    LET stopped == stop_music(e)
    IN  IF load # "ok" THEN Done(stopped, LoadError(load))
        ELSE Done([stopped EXCEPT
                        !.music_sink = Some(Sink(track.id, calculate_music_volume(stopped))),
                        !.state = "Playing",
                        !.current_track = Some(PlayingTrack(track))],
                  Ok("unit"))

crossfade_to_always_fades(e, track, load) ==
    IF load # "ok" THEN Done(e, LoadError(load))
    ELSE Done([e EXCEPT !.music_sink = Some(Sink(track.id, 0)),
                        !.state = "Playing",
                        !.current_track = Some(PlayingTrack(track))],
              Ok("unit"))

\* AudioEngine::crossfade_to: the new sink, at volume 0.0, replaces the one in
\* music_sink, which is dropped; state is written Transitioning and then
\* Playing before the call returns
crossfade_to(e, track, load) ==
    IF e.config.crossfade_type = "Instant" THEN play_track(e, track, load)
    ELSE IF load # "ok" THEN Done(e, LoadError(load))
    ELSE Done([e EXCEPT !.music_sink = Some(Sink(track.id, 0)),
                        !.state = "Playing",
                        !.current_track = Some(PlayingTrack(track))],
              Ok("unit"))

\* the values crossfade_to writes to state, in order
crossfade_state_writes(e, load) ==
    IF load # "ok" THEN <<>>
    ELSE IF e.config.crossfade_type = "Instant" THEN <<"Idle", "Playing">>
    ELSE <<"Transitioning", "Playing">>

\* AudioEngine::play_sfx: the volume of the detached sink, when it is made
play_sfx(e, load) ==
    IF load # "ok" THEN Done(e, LoadError(load))
    ELSE Done(e, Ok(Times(AsVolume(e.config.sfx_volume), e.config.master_volume)))

\* AudioEngine::stop_all
stop_all(e) == stop_music(e)

pause_without_sink(e) ==
    IF e.music_sink # None
    THEN [e EXCEPT !.music_sink = Some([@[1] EXCEPT !.paused = TRUE]), !.state = "Paused"]
    ELSE [e EXCEPT !.state = "Paused"]

\* AudioEngine::pause
pause(e) ==
    IF e.music_sink # None
    THEN [e EXCEPT !.music_sink = Some([@[1] EXCEPT !.paused = TRUE]), !.state = "Paused"]
    ELSE e

\* AudioEngine::resume
resume(e) ==
    IF e.music_sink # None
    THEN [e EXCEPT !.music_sink = Some([@[1] EXCEPT !.paused = FALSE]), !.state = "Playing"]
    ELSE e

\* AudioEngine::duck
duck(e) ==
    LET ducking == [e EXCEPT !.is_ducking = TRUE]
    IN  IF e.music_sink # None
        THEN [ducking EXCEPT !.music_sink =
                Some([@[1] EXCEPT !.volume = Times(@, e.config.ducking_amount),
                                  !.ducked = @ + 1])]
        ELSE ducking

\* AudioEngine::release_duck
release_duck(e) == update_music_volume([e EXCEPT !.is_ducking = FALSE])

set_music_volume_unclamped(e, volume) ==
    update_music_volume([e EXCEPT !.config.music_volume = volume])

\* AudioEngine::set_music_volume
set_music_volume(e, volume) ==
    update_music_volume([e EXCEPT !.config.music_volume = Clamp(volume, 0, 100)])

\* AudioEngine::set_sfx_volume
set_sfx_volume(e, volume) == [e EXCEPT !.config.sfx_volume = Clamp(volume, 0, 100)]

\* AudioEngine::set_master_volume
set_master_volume(e, volume) ==
    update_music_volume([e EXCEPT !.config.master_volume = Clamp(volume, 0, 100)])

\* AudioEngine::set_crossfade_type
set_crossfade_type(e, crossfade_type) == [e EXCEPT !.config.crossfade_type = crossfade_type]

----------------------------------------------------------------------------
(* Specification SpecEngine: an AudioEngine and the calls made on it;       *)
(* specification SpecDuck: the calls that load a track, duck and set the    *)
(* music and master volumes                                                 *)

\* duck() scales the volume of one sink at most this many times in a row
MaxDucks == 2

Tracks == {Track("calm", TRUE), Track("battle", FALSE)}
Loads == {"ok", "no_sink", "no_file", "bad_file"}
Volumes == {-50, 50, 150}
CrossfadeTypes == {"Instant", "Quick", "Musical", "Long"}

EngineOp(op, arg, result) == [op |-> op, arg |-> arg, result |-> result]

InitEngine ==
    /\ InitPipeline(DefaultConfig)
    /\ NoScript
    /\ NoStop
    /\ NoVad
    /\ fsm2 = None
    /\ NoKw
    /\ NoReload
    /\ NoEmo
    /\ NoSpk
    /\ engine = EngineNew
    /\ engine_op = EngineOp("new", "", Ok("unit"))
    /\ engine_twin = None
    /\ NoSession
    /\ NoCmd

engine_frame == <<det_frame, kw_vars, reload_vars, emo_vars, spk_vars, session_vars, cmd_vars>>

\* a call that returns nothing
EngCall(op, arg, after) ==
    /\ engine' = after
    /\ engine_op' = EngineOp(op, arg, Ok("unit"))
    /\ engine_twin' = None
    /\ UNCHANGED engine_frame

\* engine.play_track(&track)
EngPlayTrack ==
    \E track \in Tracks, load \in Loads :
        LET done == play_track(engine, track, load)
        IN  /\ engine' = done.engine
            /\ engine_op' = EngineOp("play_track", <<track.id, load>>, done.result)
            /\ engine_twin' = None
            /\ UNCHANGED engine_frame

\* engine.crossfade_to(&track); engine_twin is what play_track would have done
EngCrossfadeTo ==
    \E track \in Tracks, load \in Loads :
        LET done == crossfade_to(engine, track, load)
        IN  /\ engine' = done.engine
            /\ engine_op' = EngineOp("crossfade_to",
                                     <<track.id, load, crossfade_state_writes(engine, load)>>,
                                     done.result)
            /\ engine_twin' = Some(play_track(engine, track, load))
            /\ UNCHANGED engine_frame

\* engine.play_sfx(&sfx)
EngPlaySfx ==
    \E load \in Loads :
        LET done == play_sfx(engine, load)
        IN  /\ engine' = done.engine
            /\ engine_op' = EngineOp("play_sfx", <<"sfx", load>>, done.result)
            /\ engine_twin' = None
            /\ UNCHANGED engine_frame

EngStopMusic == EngCall("stop_music", "", stop_music(engine))
EngStopAll == EngCall("stop_all", "", stop_all(engine))
EngPause == EngCall("pause", "", pause(engine))
EngResume == EngCall("resume", "", resume(engine))

\* engine.duck()
EngDuck ==
    /\ engine.music_sink # None => engine.music_sink[1].ducked < MaxDucks
    /\ EngCall("duck", "", duck(engine))

EngReleaseDuck == EngCall("release_duck", "", release_duck(engine))

EngSetMusicVolume ==
    \E volume \in Volumes : EngCall("set_music_volume", volume, set_music_volume(engine, volume))

EngSetSfxVolume ==
    \E volume \in Volumes : EngCall("set_sfx_volume", volume, set_sfx_volume(engine, volume))

EngSetMasterVolume ==
    \E volume \in Volumes : EngCall("set_master_volume", volume, set_master_volume(engine, volume))

EngSetCrossfadeType ==
    \E crossfade_type \in CrossfadeTypes :
        EngCall("set_crossfade_type", crossfade_type, set_crossfade_type(engine, crossfade_type))

NextEngine ==
    \/ EngPlayTrack
    \/ EngCrossfadeTo
    \/ EngPlaySfx
    \/ EngStopMusic
    \/ EngStopAll
    \/ EngPause
    \/ EngResume
    \/ EngDuck
    \/ EngReleaseDuck
    \/ EngSetMusicVolume
    \/ EngSetSfxVolume
    \/ EngSetMasterVolume
    \/ EngSetCrossfadeType

SpecEngine == InitEngine /\ [][NextEngine]_vars

NextDuck ==
    \/ EngPlayTrack
    \/ EngDuck
    \/ EngReleaseDuck
    \/ EngSetMusicVolume
    \/ EngSetMasterVolume

SpecDuck == InitEngine /\ [][NextDuck]_vars

----------------------------------------------------------------------------
(* orchestrator/state.rs, audio/capture.rs                                  *)
(*                                                                          *)
(* The shared audio buffer and the sample vectors made from it are          *)
(* represented by their lengths.                                            *)

\* AudioCapture::new
CaptureNew == [stream |-> FALSE, is_recording |-> FALSE, sample_rate |-> 16000, channels |-> 1]

\* cpal's default input device: none, or its default config and whether
\* building and playing the input stream work
Device(status, sample_rate, channels) ==
    [status |-> status, sample_rate |-> sample_rate, channels |-> channels]

\* AudioCapture::start_recording
start_recording(capture, device) ==
    CASE device.status = "none" -> [capture |-> capture, result |-> Err("NoInputDevice")]
      [] device.status = "no_config" -> [capture |-> capture, result |-> Err("ConfigError")]
      [] device.status = "no_stream" -> [capture |-> capture, result |-> Err("StreamBuildError")]
      [] device.status = "no_play" -> [capture |-> capture, result |-> Err("StreamPlayError")]
      [] device.status = "ok" ->
            [capture |-> [stream |-> TRUE, is_recording |-> TRUE,
                          sample_rate |-> device.sample_rate, channels |-> device.channels],
             result |-> Ok("unit")]

\* AudioCapture::stop_recording
stop_recording(capture) ==
    [capture |-> [capture EXCEPT !.stream = FALSE, !.is_recording = FALSE],
     result |-> Ok("unit")]

\* SessionConfig::default
SessionConfigDefault ==
    [sample_rate |-> 16000, buffer_size_ms |-> 100, silence_threshold |-> 1,
     enable_transcription |-> TRUE, enable_emotion_analysis |-> TRUE]

\* SessionOrchestrator::new
SessionNew ==
    [state |-> "Idle", config |-> SessionConfigDefault, capture |-> CaptureNew,
     whisper_initialized |-> FALSE, emotion_initialized |-> FALSE, audio_buffer |-> 0]

\* SessionOrchestrator::init
session_init(s, whisper_loaded) ==
    [s EXCEPT !.whisper_initialized = @ \/ whisper_loaded, !.emotion_initialized = TRUE]

\* SessionOrchestrator::set_config
set_config(s, cfg) == [s EXCEPT !.config = cfg]

\* dsp::processing::resample, the length of what it returns
resample(samples_len, from_rate, to_rate) ==
    IF from_rate = to_rate THEN samples_len
    ELSE IF samples_len = 0 \/ to_rate = 0 THEN 0
    ELSE ((samples_len - 1) * to_rate + from_rate - 1) \div from_rate

\* dsp::processing::stereo_to_mono, the length of what it returns
stereo_to_mono(samples_len, channels) ==
    IF channels < 2 \/ samples_len < 2 THEN samples_len ELSE samples_len \div channels

SessionResult(transcription, emotion) == [transcription |-> transcription, emotion |-> emotion]

\* Result::ok, for the two match statements of process_audio
OkOrNone(enabled, result) == IF enabled /\ result.ok THEN Some(result.value) ELSE None

\* SessionOrchestrator::process_audio
session_process_audio(s, whisper_outcome, emotion_outcome) ==
    LET resampled ==
            IF s.capture.sample_rate # s.config.sample_rate
            THEN resample(s.audio_buffer, s.capture.sample_rate, s.config.sample_rate)
            ELSE s.audio_buffer
        samples ==
            IF s.capture.channels > 1 THEN stereo_to_mono(resampled, s.capture.channels)
            ELSE resampled
    IN  Ok(SessionResult(
            OkOrNone(s.config.enable_transcription,
                     transcribe(s.whisper_initialized, whisper_outcome)),
            OkOrNone(s.config.enable_emotion_analysis,
                     analyze(s.emotion_initialized, samples, emotion_outcome))))

start_session_unguarded(s, device) ==
    LET cleared == [s EXCEPT !.audio_buffer = 0]
        started == start_recording(cleared.capture, device)
    IN  IF ~started.result.ok
        THEN [session |-> cleared, result |-> Err("AudioError")]
        ELSE [session |-> [cleared EXCEPT !.capture = started.capture,
                                          !.state = "Recording"],
              result |-> Ok("unit")]

\* SessionOrchestrator::start_session
start_session(s, device) ==
    IF s.state # "Idle" THEN [session |-> s, result |-> Err("InvalidState")]
    ELSE LET cleared == [s EXCEPT !.audio_buffer = 0]
             started == start_recording(cleared.capture, device)
         IN  IF ~started.result.ok
             THEN [session |-> cleared, result |-> Err("AudioError")]
             ELSE [session |-> [cleared EXCEPT !.capture = started.capture,
                                               !.state = "Recording"],
                   result |-> Ok("unit")]

\* SessionOrchestrator::stop_session
stop_session(s, whisper_outcome, emotion_outcome) ==
    IF s.state # "Recording" THEN [session |-> s, result |-> Err("InvalidState")]
    ELSE LET stopped == stop_recording(s.capture)
         IN  IF ~stopped.result.ok
             THEN [session |-> [s EXCEPT !.capture = stopped.capture],
                   result |-> Err("AudioError")]
             ELSE LET processing == [s EXCEPT !.capture = stopped.capture,
                                              !.state = "Processing"]
                      result == session_process_audio(processing, whisper_outcome,
                                                      emotion_outcome)
                  IN  IF ~result.ok THEN [session |-> processing, result |-> result]
                      ELSE [session |-> [processing EXCEPT !.state = "Idle"],
                            result |-> result]

\* the callback given to start_recording, run by the input stream on a chunk
capture_callback(s, chunk_len) == [s EXCEPT !.audio_buffer = @ + chunk_len]

----------------------------------------------------------------------------
(* Specification SpecSession: a SessionOrchestrator, its capture stream and *)
(* the calls made on it                                                     *)

\* the input stream delivers chunks while the buffer holds less than this
MaxSessionSamples == 3200

Devices ==
    {Device("none", 0, 0), Device("no_config", 0, 0), Device("no_stream", 48000, 2),
     Device("no_play", 48000, 2), Device("ok", 16000, 1), Device("ok", 48000, 2)}

Chunks == {800, 1600}

SessionConfigs ==
    {SessionConfigDefault,
     [SessionConfigDefault EXCEPT !.enable_transcription = FALSE,
                                  !.enable_emotion_analysis = FALSE]}

SessionWhisperOutcomes ==
    {Ok("[Transcription placeholder - enable whisper feature]"), Err("InferenceError")}
SessionEmotionOutcomes == {Ok("sad"), Ok("neutral")}

SessionOp(op, result, calls) == [op |-> op, result |-> result, calls |-> calls]

InitSession ==
    /\ InitPipeline(DefaultConfig)
    /\ NoScript
    /\ NoStop
    /\ NoVad
    /\ fsm2 = None
    /\ NoKw
    /\ NoReload
    /\ NoEmo
    /\ NoSpk
    /\ NoEngine
    /\ session = SessionNew
    /\ session_op = SessionOp("new", Ok("unit"), 0)
    /\ NoCmd

session_frame == <<det_frame, kw_vars, reload_vars, emo_vars, spk_vars, engine_vars, cmd_vars>>

SessCall(op, done) ==
    /\ session' = done.session
    /\ session_op' = SessionOp(op, done.result, 1 - session_op.calls)
    /\ UNCHANGED session_frame

\* orchestrator.init()
SessInit ==
    \E whisper_loaded \in BOOLEAN :
        SessCall("init", [session |-> session_init(session, whisper_loaded),
                          result |-> Ok("unit")])

\* orchestrator.set_config(cfg)
SessSetConfig ==
    \E cfg \in SessionConfigs :
        SessCall("set_config", [session |-> set_config(session, cfg), result |-> Ok("unit")])

\* orchestrator.start_session()
SessStart ==
    \E device \in Devices : SessCall("start_session", start_session(session, device))

\* orchestrator.stop_session()
SessStop ==
    \E whisper_outcome \in SessionWhisperOutcomes, emotion_outcome \in SessionEmotionOutcomes :
        SessCall("stop_session", stop_session(session, whisper_outcome, emotion_outcome))

\* the input stream calls the callback with a chunk of samples
SessCapture ==
    /\ session.capture.stream
    /\ session.audio_buffer < MaxSessionSamples
    /\ \E chunk_len \in Chunks : session' = capture_callback(session, chunk_len)
    /\ UNCHANGED <<session_op, session_frame>>

NextSession == SessInit \/ SessSetConfig \/ SessStart \/ SessStop \/ SessCapture

SpecSession == InitSession /\ [][NextSession]_vars

----------------------------------------------------------------------------
(* Specification SpecSeg: a running DetectionPipeline whose configured      *)
(* segment duration is anything from 0 to above the maximum                 *)

\* the pipeline is fed while its shared audio buffer holds at most this much
MaxSegAudio == 256000

\* constants::VAD_MIN_SEGMENT_MS and constants::TRANSCRIPTION_MAX_SEGMENT_MS
VAD_MIN_SEGMENT_MS == 100
TRANSCRIPTION_MAX_SEGMENT_MS == 12000

SegmentDurations == {0, 50, 100, 8000, 12000, 13000}
SegConfigs ==
    {[DefaultConfig EXCEPT !.transcription_segment_ms = ms] : ms \in SegmentDurations}
SegFrames == {Frame(800, 0), Frame(104000, 100)}

\* the analysis outcomes of the segments: the placeholder text, a sad segment
SegAnalysis ==
    [whisper |-> Ok(PlaceholderText), matches |-> <<>>,
     emotion |-> Ok([primary |-> "sad", confidence |-> 37])]

InitSeg ==
    /\ \E cfg \in SegConfigs : InitPipeline(cfg)
    /\ NoScript
    /\ NoOthers

\* pipeline.process_audio(samples, 0)
SegProcessAudio ==
    /\ \E frame \in SegFrames :
            /\ is_running => audio_buffer + frame.len <= MaxSegAudio
            /\ Becomes(process_audio(Pipeline, frame, 0, SegAnalysis.whisper,
                                     SegAnalysis.matches, SegAnalysis.emotion))
            /\ last_transcribe' = TranscribeEnd(Pipeline, frame, SegAnalysis.whisper)
    /\ audio_calls' = 1 - audio_calls
    /\ UNCHANGED other_vars

NextSeg == PipelineInit \/ Start \/ SegProcessAudio

SpecSeg == InitSeg /\ [][NextSeg]_vars

----------------------------------------------------------------------------
(* Specification SpecBuiltin: a DetectionPipeline whose segments are        *)
(* classified by its own EmotionAnalyzer, from the features of the segment  *)

\* a score as the confidence the pipeline passes on, in hundredths; the value
\* is rounded, and stays on its side of 0.6 (num/den > 6/10)
Hundredths(score) ==
    LET rounded == score.num \div ((score.den + 99) \div 100)
    IN  IF 5 * score.num > 3 * score.den
        THEN IF rounded > 61 THEN rounded ELSE 61
        ELSE IF rounded < 60 THEN rounded ELSE 60

\* the features of a segment by their normalised values energy, pitch_norm
\* and variance, each from 0.0 to 1.0 in tenths
GridFeatures(tenths) ==
    {AudioFeatures(10 * energy, 0, 30 * pitch_norm, 2 * variance) :
        energy \in tenths, pitch_norm \in tenths, variance \in tenths}

BuiltinFeatures == GridFeatures({0, 5, 10})
BuiltinTexts == {PlaceholderText, "dragon battle"}

\* what analyze returns for a segment with these features: the primary
\* emotion and its normalised score
builtin_emotion(features, order) ==
    LET result == analyze_features(TRUE, MinEmotionSamples, features, order)
    IN  Ok([primary |-> result.value.primary,
            confidence |-> Hundredths(result.value.confidence)])

BuiltinEmotions ==
    {builtin_emotion(features, order) :
        features \in BuiltinFeatures, order \in EmotionOrders}

BuiltinAnalyses ==
    {a \in [whisper : {Ok(text) : text \in BuiltinTexts}, matches : AllMatches,
            emotion : BuiltinEmotions] :
        a.matches \in MatchesOf(a.whisper)}

InitBuiltin ==
    /\ InitPipeline(DefaultConfig)
    /\ NoScript
    /\ NoOthers

\* pipeline.process_audio(samples, timestamp_ms), the segment classified by
\* the pipeline's analyzer
BuiltinProcessAudio ==
    /\ \E frame \in Frames, timestamp_ms \in Timestamps :
            /\ is_running => audio_buffer + frame.len <= MaxAudioSamples
            /\ \E a \in (IF Analyses(Pipeline, frame) = AllAnalyses
                          THEN BuiltinAnalyses
                          ELSE {CHOOSE a \in BuiltinAnalyses : TRUE}) :
                    /\ Becomes(process_audio(Pipeline, frame, timestamp_ms,
                                             a.whisper, a.matches, a.emotion))
                    /\ last_transcribe' = TranscribeEnd(Pipeline, frame, a.whisper)
    /\ audio_calls' = 1 - audio_calls
    /\ UNCHANGED other_vars

NextBuiltin ==
    \/ PipelineInit
    \/ SetEventSender
    \/ Start
    \/ BuiltinProcessAudio

SpecBuiltin == InitBuiltin /\ [][NextBuiltin]_vars

----------------------------------------------------------------------------
(* commands/session.rs                                                      *)
(*                                                                          *)
(* The start_session and stop_session commands work on the shared AppState, *)
(* every field of which sits behind a parking_lot RwLock of its own.  A     *)
(* guard is taken and dropped within one statement, except the read guard   *)
(* of audio_buffer that stop_session holds while it copies the samples.  A  *)
(* command is therefore a sequence of steps, one per lock operation, and    *)
(* callers interleave between steps.  The audio buffer is its length;       *)
(* buffer_readers are the callers that hold its read guard.                 *)

\* AppState::new, the fields the session commands use
AppStateNew ==
    [session_state |-> "Idle", config |-> SessionConfigDefault, audio_buffer |-> 0,
     sample_rate |-> 16000, current_emotion |-> "neutral", buffer_readers |-> {}]

SessionResponse(success, state) == [success |-> success, state |-> state]

\* a caller: the command it is in (or was in last), the statement it is at,
\* the response once the command has returned, and the samples and the
\* configuration stop_session copied
Command(op, at, response, samples) ==
    [op |-> op, at |-> at, response |-> response, samples |-> samples,
     config |-> SessionConfigDefault]

\* the command returns
Returned(cmd, response) ==
    [cmd EXCEPT !.at = "rest", !.response = Some(response), !.samples = 0,
                !.config = SessionConfigDefault]

\* the thread start_session spawns: its AudioCapture, whether start_recording
\* has returned and what, and whether its callback waits for the buffer
CaptureThread(by) ==
    [by |-> by, capture |-> CaptureNew, result |-> None, blocked |-> FALSE]

\* start_session and stop_session, "Check current state"
check_state(a, cmd, wanted, next) ==
    IF a.session_state # wanted
    THEN Returned(cmd, SessionResponse(FALSE, a.session_state))
    ELSE [cmd EXCEPT !.at = next]

\* Option::unwrap_or(true)
unwrap_or_true(option) == IF option = None THEN TRUE ELSE option[1]

\* start_session, "Update config"
update_config(a, enable_transcription, enable_emotion) ==
    [a EXCEPT !.config.enable_transcription = unwrap_or_true(enable_transcription),
              !.config.enable_emotion_analysis = unwrap_or_true(enable_emotion)]

\* start_session, "Clear audio buffer"
clear_audio_buffer(a) == [a EXCEPT !.audio_buffer = 0]

\* the body of the spawned thread up to its loop: the Result of
\* start_recording is dropped (let _ =), the thread sleeps on either way
thread_start_recording(thread, device) ==
    LET started == start_recording(thread.capture, device)
    IN  [thread EXCEPT !.capture = started.capture, !.result = Some(started.result)]

\* the callback the thread gives to start_recording
thread_callback(a, chunk_len) == [a EXCEPT !.audio_buffer = @ + chunk_len]

\* stop_session, "Get audio data": the read guard of audio_buffer is taken
read_audio_buffer(a, caller) == [a EXCEPT !.buffer_readers = @ \cup {caller}]

\* stop_session, the end of the block that copies the samples
drop_read_guard(a, caller) == [a EXCEPT !.buffer_readers = @ \ {caller}]

\* stop_session from "Process audio with DSP" to "Update current emotion":
\* the emotion the fresh analyzer finds in the copied samples, if any
stop_session_emotion(samples, rate, cfg, emotion_outcome) ==
    LET processed ==
            IF rate # cfg.sample_rate
            THEN resample(samples, rate, cfg.sample_rate)
            ELSE samples
    IN  OkOrNone(cfg.enable_emotion_analysis, analyze(TRUE, processed, emotion_outcome))

\* stop_session, "Update current emotion" and "Reset state to idle"
finish_stop_session(a, emotion) ==
    [a EXCEPT !.current_emotion = IF emotion # None THEN emotion[1] ELSE @,
              !.session_state = "Idle"]

----------------------------------------------------------------------------
(* Specification SpecCmd: two callers issue start_session and stop_session  *)
(* commands; specification SpecStartRace: the callers issue start_session   *)
(* only                                                                     *)

\* start_session spawns capture threads until there are this many
MaxCaptures == 2
\* the callbacks deliver chunks while the buffer holds less than this
MaxCmdSamples == 1600

Callers == {1, 2}
CmdDevices == {Device("none", 0, 0), Device("ok", 16000, 1)}
CmdChunks == {1600}
EnableOptions == {None, Some(FALSE)}

Resting == Command("none", "rest", None, 0)

InitCmd ==
    /\ InitPipeline(DefaultConfig)
    /\ NoScript
    /\ NoStop
    /\ NoVad
    /\ fsm2 = None
    /\ NoKw
    /\ NoReload
    /\ NoEmo
    /\ NoSpk
    /\ NoEngine
    /\ NoSession
    /\ app = AppStateNew
    /\ cmds = [caller \in Callers |-> Resting]
    /\ captures = <<>>

cmd_frame == <<det_frame, kw_vars, reload_vars, emo_vars, spk_vars, engine_vars,
               session_vars>>

\* the caller is at this statement of this command
At(caller, op, at) == cmds[caller].op = op /\ cmds[caller].at = at

\* a caller invokes the start_session command
InvokeStart ==
    \E caller \in Callers :
        /\ cmds[caller].at = "rest"
        /\ Len(captures) < MaxCaptures
        /\ cmds' = [cmds EXCEPT ![caller] = Command("start_session", "check", None, 0)]
        /\ UNCHANGED <<app, captures, cmd_frame>>

\* a caller invokes the stop_session command
InvokeStop ==
    \E caller \in Callers :
        /\ cmds[caller].at = "rest"
        /\ cmds' = [cmds EXCEPT ![caller] = Command("stop_session", "check", None, 0)]
        /\ UNCHANGED <<app, captures, cmd_frame>>

\* start_session: *state.session_state.read() and the early return
StartCheck ==
    \E caller \in Callers :
        /\ At(caller, "start_session", "check")
        /\ cmds' = [cmds EXCEPT ![caller] = check_state(app, @, "Idle", "config")]
        /\ UNCHANGED <<app, captures, cmd_frame>>

\* start_session: state.config.write()
StartConfig ==
    \E caller \in Callers, enable_transcription \in EnableOptions,
       enable_emotion \in EnableOptions :
        /\ At(caller, "start_session", "config")
        /\ app' = update_config(app, enable_transcription, enable_emotion)
        /\ cmds' = [cmds EXCEPT ![caller].at = "clear"]
        /\ UNCHANGED <<captures, cmd_frame>>

\* start_session: state.audio_buffer.write(), which waits for the readers
StartClear ==
    \E caller \in Callers :
        /\ At(caller, "start_session", "clear")
        /\ app.buffer_readers = {}
        /\ app' = clear_audio_buffer(app)
        /\ cmds' = [cmds EXCEPT ![caller].at = "spawn"]
        /\ UNCHANGED <<captures, cmd_frame>>

\* start_session: std::thread::spawn
StartSpawn ==
    \E caller \in Callers :
        /\ At(caller, "start_session", "spawn")
        /\ captures' = Append(captures, CaptureThread(caller))
        /\ cmds' = [cmds EXCEPT ![caller].at = "record"]
        /\ UNCHANGED <<app, cmd_frame>>

\* start_session: *state.session_state.write() = Recording, and Ok(..)
StartRecord ==
    \E caller \in Callers :
        /\ At(caller, "start_session", "record")
        /\ app' = [app EXCEPT !.session_state = "Recording"]
        /\ cmds' = [cmds EXCEPT ![caller] = Returned(@, SessionResponse(TRUE, "recording"))]
        /\ UNCHANGED <<captures, cmd_frame>>

\* a spawned thread runs capture.start_recording(..)
ThreadStartRecording ==
    \E thread \in DOMAIN captures, device \in CmdDevices :
        /\ captures[thread].result = None
        /\ captures' = [captures EXCEPT ![thread] = thread_start_recording(@, device)]
        /\ UNCHANGED <<app, cmds, cmd_frame>>

\* the input stream of a thread calls its callback: buffer.write() waits while
\* a read guard is held, then the samples are appended
ThreadCallback ==
    \E thread \in DOMAIN captures :
        /\ captures[thread].capture.stream
        /\ ~captures[thread].blocked
        /\ app.audio_buffer < MaxCmdSamples
        /\ IF app.buffer_readers = {}
           THEN /\ \E chunk_len \in CmdChunks : app' = thread_callback(app, chunk_len)
                /\ UNCHANGED captures
           ELSE /\ captures' = [captures EXCEPT ![thread].blocked = TRUE]
                /\ UNCHANGED app
        /\ UNCHANGED <<cmds, cmd_frame>>

\* a callback that waited gets the write guard
ThreadCallbackResumes ==
    \E thread \in DOMAIN captures :
        /\ captures[thread].blocked
        /\ app.buffer_readers = {}
        /\ \E chunk_len \in CmdChunks : app' = thread_callback(app, chunk_len)
        /\ captures' = [captures EXCEPT ![thread].blocked = FALSE]
        /\ UNCHANGED <<cmds, cmd_frame>>

\* stop_session: *state.session_state.read() and the early return
StopCheck ==
    \E caller \in Callers :
        /\ At(caller, "stop_session", "check")
        /\ cmds' = [cmds EXCEPT ![caller] = check_state(app, @, "Recording", "processing")]
        /\ UNCHANGED <<app, captures, cmd_frame>>

\* stop_session: *state.session_state.write() = Processing
StopProcessing ==
    \E caller \in Callers :
        /\ At(caller, "stop_session", "processing")
        /\ app' = [app EXCEPT !.session_state = "Processing"]
        /\ cmds' = [cmds EXCEPT ![caller].at = "read"]
        /\ UNCHANGED <<captures, cmd_frame>>

\* stop_session: state.audio_buffer.read(), which waits behind a writer that
\* waits, and the copy of the samples under the guard
StopRead ==
    \E caller \in Callers :
        /\ At(caller, "stop_session", "read")
        /\ \A thread \in DOMAIN captures : ~captures[thread].blocked
        /\ app' = read_audio_buffer(app, caller)
        /\ cmds' = [cmds EXCEPT ![caller].at = "copied",
                                ![caller].samples = app.audio_buffer,
                                ![caller].config = app.config]
        /\ UNCHANGED <<captures, cmd_frame>>

\* stop_session: the guard is dropped at the end of the block
StopDropGuard ==
    \E caller \in Callers :
        /\ At(caller, "stop_session", "copied")
        /\ app' = drop_read_guard(app, caller)
        /\ cmds' = [cmds EXCEPT ![caller].at = "analyse"]
        /\ UNCHANGED <<captures, cmd_frame>>

\* stop_session: DSP, transcription and emotion analysis of the copy, then
\* the writes of current_emotion and of session_state, and Ok(..)
StopFinish ==
    \E caller \in Callers, emotion_outcome \in SessionEmotionOutcomes :
        /\ At(caller, "stop_session", "analyse")
        /\ app' = finish_stop_session(
                    app, stop_session_emotion(cmds[caller].samples, app.sample_rate,
                                              cmds[caller].config, emotion_outcome))
        /\ cmds' = [cmds EXCEPT ![caller] = Returned(@, SessionResponse(TRUE, "idle"))]
        /\ UNCHANGED <<captures, cmd_frame>>

NextCmd ==
    \/ InvokeStart
    \/ InvokeStop
    \/ StartCheck
    \/ StartConfig
    \/ StartClear
    \/ StartSpawn
    \/ StartRecord
    \/ StopCheck
    \/ StopProcessing
    \/ StopRead
    \/ StopDropGuard
    \/ StopFinish
    \/ ThreadStartRecording
    \/ ThreadCallback
    \/ ThreadCallbackResumes

SpecCmd == InitCmd /\ [][NextCmd]_vars

NextStartRace ==
    \/ InvokeStart
    \/ StartCheck
    \/ StartConfig
    \/ StartClear
    \/ StartSpawn
    \/ StartRecord
    \/ ThreadStartRecording
    \/ ThreadCallback

SpecStartRace == InitCmd /\ [][NextStartRace]_vars

----------------------------------------------------------------------------
(* Claims *)

FsmData(f) == <<f.signal1_confirmed, f.signal2_confirmed, f.last_keyword, f.last_emotion>>

\* C1: the FSM becomes Locked only from Detecting, by a KeywordMatched or an
\* EmotionDetected event, and only when a keyword and an emotion with
\* confidence > 0.6 were both processed since the most recent
\* Listening->Detecting transition.
C1_LockedOnlyByBothSignalsOfEpisode ==
    [][(fsm.state # "Locked" /\ fsm'.state = "Locked") =>
            /\ fsm.state = "Detecting"
            /\ last_event'.type \in {"KeywordMatched", "EmotionDetected"}
            /\ kw_in_episode'
            /\ emo_in_episode']_vars

\* the FSM locked on a keyword that followed the emotion of the same episode
C1_Witness ==
    /\ fsm.state = "Locked"
    /\ kw_in_episode
    /\ emo_in_episode
    /\ last_event.type = "KeywordMatched"

\* C2: from Locked, a step either leaves the state, both flags and the recorded
\* keyword and emotion as they are, or it is CooldownComplete or Reset and ends
\* in Listening; CooldownComplete and Reset always end in Listening.
C2_LockedLeftOnlyByCooldownOrReset ==
    [][fsm.state = "Locked" =>
            /\ \/ fsm'.state = "Locked" /\ FsmData(fsm') = FsmData(fsm)
               \/ /\ fsm'.state = "Listening"
                  /\ last_event'.type \in {"CooldownComplete", "Reset"}
            /\ (last_event' # last_event
                    /\ last_event'.type \in {"CooldownComplete", "Reset"})
                => fsm'.state = "Listening"]_vars

\* VoiceDetected was processed in Locked and the FSM is still Locked
C2_Witness ==
    /\ fsm.state = "Locked"
    /\ last_event.type = "VoiceDetected"

ScriptEvent(type) == CHOOSE ev \in {script[i] : i \in 1..Len(script)} : ev.type = type

\* C3: a fresh FSM fed VoiceDetected, then KeywordMatched(k) and
\* EmotionDetected(e, c) with c > 0.6 in either order, goes Listening,
\* Detecting, Detecting, Locked and ends with both signals confirmed and k and
\* e recorded.
C3_VoiceKeywordEmotionLocks ==
    (script # <<>> /\ ScriptEvent("EmotionDetected").conf > 60) =>
        /\ path = SubSeq(<<"Listening", "Detecting", "Detecting", "Locked">>, 1, pc + 1)
        /\ pc = 3 =>
            /\ fsm.state = "Locked"
            /\ fsm.signal1_confirmed /\ fsm.signal2_confirmed
            /\ fsm.last_keyword = Some(ScriptEvent("KeywordMatched").s)
            /\ fsm.last_emotion = Some(ScriptEvent("EmotionDetected").s)

\* the script with the emotion before the keyword has run to its end
C3_Witness ==
    /\ pc = 3
    /\ script[2] = EmotionDetected("angry", 80)
    /\ script[3] = KeywordMatched("battle")
    /\ fsm.state = "Locked"

\* C5: a CooldownComplete moves the FSM from Locked to Listening only when at
\* least cooldown_ms have passed since Locked was entered.
C5_CooldownCompleteOnlyAfterCooldown ==
    [][(fsm.state = "Locked" /\ fsm'.state = "Listening"
            /\ last_event'.type = "CooldownComplete")
        => elapsed_ms >= DefaultConfig.cooldown_ms]_vars

EmittedOfType(types) == SelectSeq(emitted, LAMBDA ev : ev.type \in types)

\* C4: in a running pipeline the FSM does not stay in Detecting past
\* detection_timeout_ms: a process_audio call made when that long has passed
\* since Detecting was entered leaves Detecting.
C4_DetectingExpires ==
    [][(audio_calls' # audio_calls /\ is_running /\ fsm.state = "Detecting"
            /\ elapsed_ms >= config.detection_timeout_ms)
        => fsm'.state # "Detecting"]_vars

C7_BattleSegmentEvents ==
    (Transcription(BattleText) \in Range(emitted) /\ fsm.state # "Listening") =>
        /\ EmittedOfType({"Keyword", "Emotion", "DualSignal"}) =
                <<KeywordEvent("battle"), EmotionEvent("angry", 80),
                  DualSignal("battle", "angry")>>
        /\ fsm.state = "Locked"

\* C8: a DualSignal event is emitted only with the FSM Locked and both signals
\* confirmed, and it carries the keyword and the emotion the FSM has recorded.
C8_DualSignalCarriesRecorded ==
    \A i \in 1..Len(emitted) :
        emitted[i].type = "DualSignal" =>
            /\ fsm.state = "Locked"
            /\ fsm.signal1_confirmed /\ fsm.signal2_confirmed
            /\ fsm.last_keyword = Some(emitted[i].s)
            /\ fsm.last_emotion = Some(emitted[i].s2)

\* a DualSignal was emitted for a keyword found by the transcription
C8_Witness ==
    /\ emitted # <<>>
    /\ emitted[Len(emitted)] = DualSignal("dragon", "angry")

\* C9: a process_audio call on a pipeline that is not running changes neither
\* the segment buffer, the audio buffer, the VAD nor the FSM, and emits nothing.
C9_NotRunningIsNoOp ==
    [][(audio_calls' # audio_calls /\ ~is_running) =>
            /\ UNCHANGED <<segment_buffer, audio_buffer, vad, fsm, is_running>>
            /\ emitted' = <<>>]_vars

\* process_audio was called on a stopped pipeline that holds part of a segment
C9_Witness ==
    /\ ~is_running
    /\ audio_calls = 1
    /\ audio_buffer = 0
    /\ segment_buffer > 0
    /\ event_tx

\* C10: stop() is idempotent and only clears the running flag: stopping once
\* more changes nothing, and stopping a pipeline that is not running changes
\* nothing at all.
C10_StopIdempotent ==
    LET once == stop(Pipeline)
        twice == stop(once)
    IN  /\ twice = once
        /\ once = [Pipeline EXCEPT !.is_running = FALSE]
        /\ ~is_running => once = Pipeline

\* a pipeline stopped in the middle of a segment, with the FSM Detecting
C10_Witness ==
    /\ ~is_running
    /\ fsm.state = "Detecting"
    /\ segment_buffer > 0
    /\ vad.is_speaking

\* the FSM holds nothing: Listening, both flags false, no keyword, no emotion
FsmCleared(f) ==
    /\ f.state = "Listening"
    /\ ~f.signal1_confirmed /\ ~f.signal2_confirmed
    /\ f.last_keyword = None /\ f.last_emotion = None

\* C11: start() sets the running flag and resets the FSM: from every state of
\* the pipeline, whatever the FSM state, the pipeline after start() is running
\* with the FSM in Listening, both flags false and no keyword or emotion
\* recorded; and whenever Reset is the last event the FSM was given, the FSM
\* is in that cleared state.
C11_StartResetsFsm ==
    /\ LET p == start(Pipeline)
       IN  /\ p.is_running
           /\ FsmCleared(p.t.f)
           /\ p.t.last = Reset
    /\ last_event = Reset => FsmCleared(fsm)

\* start() was called on a pipeline whose FSM had locked on both signals
C11_Witness ==
    /\ is_running
    /\ last_event = Reset
    /\ kw_in_episode /\ emo_in_episode
    /\ FsmCleared(fsm)
    /\ audio_buffer > 0

\* the events of seq whose type is in types
OfType(seq, types) == SelectSeq(seq, LAMBDA ev : ev.type \in types)

\* C13: a process_audio call whose transcription fails emits no Transcription
\* and no Keyword event and gives no KeywordMatched to the FSM; the segment is
\* consumed, so the call is not made again for it; the emotion analysis of the
\* segment still runs and reaches the FSM; the pipeline keeps running with its
\* configuration and engines as they were, so the next segment is processed
\* as any other.
C13_TranscriptionFailOpen ==
    [][(audio_calls' # audio_calls
            /\ last_transcribe' \in {"NotInitialized", "InferenceError"}) =>
            /\ OfType(emitted', {"Transcription", "Keyword"}) = <<>>
            /\ OfType(fed', {"KeywordMatched", "TranscriptionReady"}) = <<>>
            /\ segment_buffer' = 0
            /\ (config.enable_emotion /\ emotion_initialized) =>
                    /\ Len(OfType(fed', {"EmotionDetected"})) = 1
                    /\ event_tx => Len(OfType(emitted', {"Emotion"})) = 1
            /\ is_running /\ is_running'
            /\ UNCHANGED <<config, whisper_initialized, emotion_initialized, event_tx>>]_vars

\* the transcription of a segment failed, its emotion confirmed the second
\* signal, and the pipeline is still running
C13_Witness ==
    /\ last_transcribe = "InferenceError"
    /\ is_running
    /\ segment_buffer = 0
    /\ fsm.state = "Detecting"
    /\ fsm.signal2_confirmed
    /\ OfType(emitted, {"Emotion"}) = <<EmotionEvent("angry", 80)>>

\* C14: in a running pipeline with VAD enabled, a process_audio call gives one
\* VoiceDetected to the FSM and emits one VoiceStart exactly when the frame is
\* a speech-start edge of the VAD, gives one VoiceEnded to the FSM and emits
\* one VoiceEnd exactly when it is a speech-end edge, and does neither on any
\* other frame.
C14_OneVoiceEventPerEdge ==
    [][(audio_calls' # audio_calls /\ is_running /\ config.enable_vad) =>
            LET start_edge == ~vad.is_speaking /\ vad'.is_speaking
                end_edge == vad.is_speaking /\ ~vad'.is_speaking
                One(b) == IF b THEN 1 ELSE 0
            IN  /\ Len(OfType(fed', {"VoiceDetected"})) = One(start_edge)
                /\ Len(OfType(fed', {"VoiceEnded"})) = One(end_edge)
                /\ event_tx =>
                    /\ Len(OfType(emitted', {"VoiceStart"})) = One(start_edge)
                    /\ Len(OfType(emitted', {"VoiceEnd"})) = One(end_edge)]_vars

\* C12: when stop() was called while a segment analysis was in flight, the
\* call that finishes the analysis gives no KeywordMatched and no
\* EmotionDetected to the FSM and emits no Keyword, Emotion or DualSignal event.
C12_StopDiscardsInFlight ==
    [][(in_flight # None /\ stop_pending /\ in_flight' = None) =>
            /\ OfType(fed', {"KeywordMatched", "EmotionDetected"}) = <<>>
            /\ OfType(emitted', {"Keyword", "Emotion", "DualSignal"}) = <<>>]_vars

\* C15: a process_frame call changes is_speaking exactly on an edge; its result
\* carries a start timestamp without an end exactly on a false->true edge, and
\* then no speech segment was open; it carries an end timestamp exactly on a
\* true->false edge, and then its start timestamp is the one the matching
\* false->true edge carried; so starts and ends alternate, a start first.
C15_OneResultPerEdge ==
    [][(vad'.threshold = vad.threshold /\ vad_result' # None) =>
            LET r == vad_result'[1]
                rising == ~vad.is_speaking /\ vad'.is_speaking
                falling == vad.is_speaking /\ ~vad'.is_speaking
            IN  /\ (r.start_ms # None /\ r.end_ms = None) <=> rising
                /\ (r.end_ms # None) <=> falling
                /\ rising => open_start = None /\ open_start' = r.start_ms
                /\ falling => open_start # None /\ r.start_ms = open_start
                /\ vad'.is_speaking = r.is_speech]_vars

\* a speech segment that started at 30 has just ended at 60
C15_Witness ==
    /\ vad_result # None
    /\ vad_result[1].start_ms = Some(30)
    /\ vad_result[1].end_ms = Some(60)
    /\ ~vad.is_speaking
    /\ open_start = None

\* C16: after process_frame on an empty frame or a frame of zeros, in every
\* state of the detector, the result has is_speech = false and confidence 0.
C16_SilenceIsZeroConfidence ==
    (last_frame # None /\ (last_frame[1].len = 0 \/ last_frame[1].amp = 0)) =>
        /\ ~vad_result[1].is_speech
        /\ vad_result[1].confidence = 0

\* C17: two FSM instances that received the same events are in the same state
\* with the same flags, keyword and emotion, whatever mode each was set to and
\* whenever it was set.
C17_ModeAgnostic ==
    /\ fsm.state = fsm2.state
    /\ FsmData(fsm) = FsmData(fsm2)

\* both instances locked, one Autonomous and one Collaborative
C17_Witness ==
    /\ fsm.mode = "Collaborative"
    /\ fsm2.mode = "Autonomous"
    /\ fsm.state = "Locked"
    /\ fsm2.state = "Locked"
    /\ fsm.last_keyword = Some("dragon")

\* the tokens of the text last searched
SearchedWords == split_whitespace(to_lowercase(vocab_op.arg))

\* the priority of the keyword a match came from
OwnerPriority(v, m) == v.keywords[m.via].priority

\* a goes before b: higher keyword priority, or the same and higher confidence
GoesBefore(v, a, b) ==
    \/ OwnerPriority(v, a) > OwnerPriority(v, b)
    \/ /\ OwnerPriority(v, a) = OwnerPriority(v, b)
       /\ a.num * b.den > b.num * a.den

RECURSIVE InsertByOwner(_, _, _)
InsertByOwner(v, sorted, m) ==
    IF sorted = <<>> THEN <<m>>
    ELSE IF GoesBefore(v, m, Head(sorted))
         THEN <<m>> \o sorted
         ELSE <<Head(sorted)>> \o InsertByOwner(v, Tail(sorted), m)

\* seq ordered by keyword priority, then confidence, ties in the order of seq
RECURSIVE SortByOwner(_, _, _)
SortByOwner(v, sorted, seq) ==
    IF seq = <<>> THEN sorted
    ELSE SortByOwner(v, InsertByOwner(v, sorted, Head(seq)), Tail(seq))

\* C18: after a search, every token that is a key of the vocabulary (a
\* lower-cased variation) has a match of confidence 1.0 for its keyword, and
\* the list returned is the list of matches in the order they were found,
\* reordered by keyword priority descending, then confidence descending,
\* ties keeping the order in which they were found.
C18_ExactMatchesAndOrder ==
    vocab_op.op = "search" =>
        /\ \A i \in 1..Len(SearchedWords) :
                SearchedWords[i] \in DOMAIN vocabulary.keywords =>
                    \E k \in 1..Len(found) :
                        /\ found[k].start_index = i - 1
                        /\ found[k].keyword = vocabulary.keywords[SearchedWords[i]].word
                        /\ found[k].num = found[k].den
        /\ found = SortByOwner(vocabulary, <<>>,
                        token_matches(vocabulary, SearchedWords, 0, vocab_op.order))

Min(a, b) == IF a <= b THEN a ELSE b

\* C19: after a search, for every token that is no key of the vocabulary and
\* every key that contains it or is contained in it, a match is returned
\* exactly when shorter length / longer length > 0.5, and the confidence of
\* that match is shorter length / longer length.
C19_FuzzyConfidenceIsLengthRatio ==
    vocab_op.op = "search" =>
        \A i \in 1..Len(SearchedWords) :
            LET word == SearchedWords[i]
            IN  word \notin DOMAIN vocabulary.keywords =>
                    \A kw \in DOMAIN vocabulary.keywords :
                        LET short == Min(Len(kw), Len(word))
                            long == Max(Len(kw), Len(word))
                            hits == {k \in 1..Len(found) :
                                        found[k].start_index = i - 1 /\ found[k].via = kw}
                        IN  /\ hits # {} <=> (fuzzy_hit(kw, word) /\ 2 * short > long)
                            /\ \A k \in hits : found[k].num * long = found[k].den * short

\* C20: a call on the vocabulary never decreases the version; a call that
\* changes the keywords or the categories increases it; add_keyword increases
\* it by one; remove_keyword of a word that is no key changes nothing.
C20_VersionMonotonic ==
    [][vocab_calls' # vocab_calls =>
            /\ vocabulary'.version >= vocabulary.version
            /\ (vocabulary'.keywords # vocabulary.keywords
                    \/ vocabulary'.categories # vocabulary.categories)
                => vocabulary'.version > vocabulary.version
            /\ vocab_op'.op = "add" => vocabulary'.version = vocabulary.version + 1
            /\ (vocab_op'.op = "remove"
                    /\ to_lowercase(vocab_op'.arg) \notin DOMAIN vocabulary.keywords)
                => vocabulary' = vocabulary]_vars

\* remove_keyword was called with a word that is no key of a vocabulary that
\* holds one keyword, and the version is still 1
C20_Witness ==
    /\ vocab_op = VocabOp("remove", "gold", <<>>)
    /\ vocabulary.version = 1
    /\ "merchant" \in DOMAIN vocabulary.keywords

\* the keys a list of keywords is stored under
KeysOf(keywords) ==
    UNION {{to_lowercase(keywords[i].variations[j]) :
                j \in 1..Len(keywords[i].variations)} : i \in 1..Len(keywords)}

\* C21: a reload_if_changed call replaces the active vocabulary by the one of
\* the file exactly when the file lists keywords and the version of that
\* vocabulary (one per listed keyword) is strictly greater than the active
\* version, and returns true exactly then; when it returns false or an error
\* (unreadable or malformed file) the active vocabulary and its version are
\* unchanged; the active version never decreases in a reload.
C21_ReloadOnlyNewer ==
    [][(vocab_calls' # vocab_calls /\ vocab_op'.op = "reload") =>
        LET file == reload_result'[1].file
            result == reload_result'[1].result
            newer == file.kind = "json" /\ Len(file.keywords) > vocabulary.version
        IN  /\ (result.ok /\ result.value) <=> newer
            /\ file.kind # "json" <=> ~result.ok
            /\ newer => /\ vocabulary'.version = Len(file.keywords)
                        /\ DOMAIN vocabulary'.keywords = KeysOf(file.keywords)
                        /\ \A i \in 1..Len(file.keywords) :
                                \E k \in DOMAIN vocabulary'.keywords :
                                    vocabulary'.keywords[k].word = file.keywords[i].word
            /\ ~newer => vocabulary' = vocabulary
            /\ vocabulary'.version >= vocabulary.version]_vars

\* a reload replaced a vocabulary of version 1 by one of version 2
C21_Witness ==
    /\ vocab_op.op = "reload"
    /\ reload_result # None
    /\ reload_result[1].result.ok
    /\ reload_result[1].result.value
    /\ vocabulary.version = 2
    /\ Len(reload_result[1].file.keywords) = 2

\* the (word, variations, category, mood, priority) tuples a vocabulary holds
TuplesOf(v) == {v.keywords[k] : k \in DOMAIN v.keywords}

\* C22: for a vocabulary built by add_keyword calls, from_json(to_json(v))
\* succeeds and holds the same set of (word, variations, category, mood,
\* priority) tuples as v, whatever order the map gives its values in.
C22_JsonRoundTrip ==
    round_trip # None =>
        /\ round_trip[1].vocabulary.ok
        /\ TuplesOf(round_trip[1].vocabulary.value) = TuplesOf(vocabulary)

\* the last analyze call succeeded
Analysed == emo_result # None /\ emo_result[1].ok

\* the emotions no other emotion scores higher than
TopScored(scores) ==
    {emotion \in DOMAIN scores :
        \A other \in DOMAIN scores : ~score_greater(scores[other], scores[emotion])}

\* C23: for a silent segment (energy, zero-crossing rate, pitch and variance
\* all 0) Neutral has the highest of the seven normalised scores, and analyze
\* returns Neutral as the primary emotion.
C23_SilenceIsNeutral ==
    (Analysed /\ emo_features[1].features = SilentFeatures) =>
        /\ "neutral" \in TopScored(emo_result[1].value.scores)
        /\ emo_result[1].value.primary = "neutral"

\* C24: the primary emotion analyze returns is the arg-max of the scores, a
\* tie at the top going to the emotion declared first (Neutral, Happy, Sad,
\* Angry, Fearful, Surprised, Disgusted).
C24_PrimaryIsFirstArgMax ==
    Analysed =>
        LET top == TopScored(emo_result[1].value.scores)
            first == CHOOSE i \in 1..7 :
                        /\ EmotionAll[i] \in top
                        /\ \A j \in 1..(i - 1) : EmotionAll[j] \notin top
        IN  emo_result[1].value.primary = EmotionAll[first]

\* what verify has to report for a candidate, but for the identical-candidate
\* rule: nothing for no profile, else the greatest similarity with the id of a
\* profile that attains it, verified exactly when it reaches the threshold
VerifyReportsBest ==
    LET candidate == verify_call[1].candidate
        result == verify_call[1].result
        profiles == verifier.enrolled_profiles
        sim(i) == cosine_similarity(candidate, profiles[i].embedding)
    IN  /\ profiles = <<>> =>
                result = SpeakerVerificationResult(FALSE, ZeroSimilarity, None)
        /\ profiles # <<>> =>
                /\ \E i \in 1..Len(profiles) :
                        /\ result.speaker_id = Some(profiles[i].id)
                        /\ result.similarity = sim(i)
                /\ \A j \in 1..Len(profiles) : ~similarity_greater(sim(j), result.similarity)
        /\ result.is_verified <=> (/\ profiles # <<>>
                                   /\ result.similarity.dot >= 0
                                   /\ 10000 * result.similarity.dot * result.similarity.dot
                                        >= verifier.threshold * verifier.threshold
                                            * result.similarity.norm2)

\* the candidate of the last verify call is the embedding of an enrolled profile
IdenticalEnrolled ==
    \E i \in 1..Len(verifier.enrolled_profiles) :
        verifier.enrolled_profiles[i].embedding = verify_call[1].candidate

NonZero(embedding) == \E i \in 1..Len(embedding.data) : embedding.data[i] # 0

C26_VolumesInRange ==
    /\ engine.config.music_volume \in 0..100
    /\ engine.config.sfx_volume \in 0..100
    /\ engine.config.master_volume \in 0..100
    /\ engine.music_sink # None =>
            (engine.music_sink[1].volume >= 0 /\ engine.music_sink[1].volume <= SinkScale)

\* set_music_volume was given 1.5 while a track is loaded: the music volume
\* and the sink volume are 1.0
C26_Witness ==
    /\ engine_op.op = "set_music_volume"
    /\ engine_op.arg = 150
    /\ engine.config.music_volume = 100
    /\ engine.music_sink # None
    /\ engine.music_sink[1].volume = SinkScale

\* C27: with the crossfade type Instant, crossfade_to(track) ends in the state
\* play_track(track) ends in from the same prior state, with the same result;
\* on success the engine is Playing, the track is the current track and the
\* music sink has the volume play_track gives it.
C27_InstantCrossfadeIsPlayTrack ==
    (engine_op.op = "crossfade_to" /\ engine.config.crossfade_type = "Instant") =>
        /\ engine_twin # None
        /\ engine_twin[1].engine = engine
        /\ engine_twin[1].result = engine_op.result
        /\ engine_op.result.ok =>
                /\ engine.state = "Playing"
                /\ engine.current_track # None
                /\ engine.current_track[1].track.id = engine_op.arg[1]
                /\ engine.music_sink # None
                /\ engine.music_sink[1].track = engine_op.arg[1]
                /\ engine.music_sink[1].volume = calculate_music_volume(engine)

\* an Instant crossfade_to succeeded while ducking was active and the music
\* volume was 0.5
C27_Witness ==
    /\ engine_op.op = "crossfade_to"
    /\ engine.config.crossfade_type = "Instant"
    /\ engine_op.result.ok
    /\ engine.is_ducking
    /\ engine.config.music_volume = 50
    /\ engine.state = "Playing"

\* C28: a successful crossfade_to with a type other than Instant passes
\* through Transitioning and settles in Playing with the new track as the
\* current track and the volume of the new track at its target, music volume
\* x master volume x (ducking amount if ducking), not at 0.
C28_CrossfadeSettlesAtTarget ==
    (engine_op.op = "crossfade_to" /\ engine.config.crossfade_type # "Instant"
        /\ engine_op.result.ok) =>
        /\ engine_op.arg[3] = <<"Transitioning", "Playing">>
        /\ engine.state = "Playing"
        /\ engine.current_track # None
        /\ engine.current_track[1].track.id = engine_op.arg[1]
        /\ engine.music_sink # None
        /\ engine.music_sink[1].track = engine_op.arg[1]
        /\ engine.music_sink[1].volume = calculate_music_volume(engine)

\* C29: while a track is loaded, after any sequence of play_track, duck,
\* release_duck, set_music_volume and set_master_volume, the volume of the
\* music sink is music volume x master volume x (ducking amount if ducking is
\* active, else 1): several duck() calls attenuate once, release_duck()
\* restores music volume x master volume.
C29_SinkVolumeIsProduct ==
    engine.music_sink # None =>
        engine.music_sink[1].volume =
            Times(Times(AsVolume(engine.config.music_volume), engine.config.master_volume),
                  IF engine.is_ducking THEN engine.config.ducking_amount ELSE 100)

\* C30: start_session in a state other than Idle and stop_session in a state
\* other than Recording return the InvalidState error and leave the session
\* state, the audio buffer and the capture (the whole orchestrator) unchanged.
C30_InvalidStateMutatesNothing ==
    [][(session_op'.calls # session_op.calls /\
            \/ (session_op'.op = "start_session" /\ session.state # "Idle")
            \/ (session_op'.op = "stop_session" /\ session.state # "Recording")) =>
        /\ ~session_op'.result.ok
        /\ session_op'.result.value = "InvalidState"
        /\ session'.state = session.state
        /\ session'.audio_buffer = session.audio_buffer
        /\ session'.capture = session.capture
        /\ session' = session]_vars

\* start_session was rejected while recording, with samples in the buffer
C30_Witness ==
    /\ session_op.op = "start_session"
    /\ ~session_op.result.ok
    /\ session_op.result.value = "InvalidState"
    /\ session.state = "Recording"
    /\ session.capture.is_recording
    /\ session.audio_buffer > 0

\* C34: in every reachable state of the DetectionFsm, after any sequence of
\* events, is_dual_signal_confirmed() is true if and only if the state is
\* Locked.
C34_ConfirmedIffLocked ==
    is_dual_signal_confirmed(fsm) <=> fsm.state = "Locked"

\* the FSM was Locked with both signals and a CooldownComplete took it back to
\* Listening, where neither signal is confirmed any more
C34_Witness ==
    /\ last_event = CooldownComplete
    /\ fsm.state = "Listening"
    /\ ~fsm.signal1_confirmed
    /\ ~fsm.signal2_confirmed
    /\ kw_in_episode
    /\ emo_in_episode

\* the number of samples that make a duration at the pipeline's sample rate
SamplesOf(ms) == (SampleRate * ms) \div 1000

\* C33: the segment duration is clamped to [100, 12000] ms: whatever
\* transcription_segment_ms is configured, a process_audio call processes the
\* segment only when it holds at least 100 ms of samples, and never leaves
\* 12000 ms or more of samples buffered without processing them.
C33_SegmentDurationClamped ==
    [][audio_calls' # audio_calls =>
        /\ (segment_buffer' = 0 /\ audio_buffer' > audio_buffer) =>
                segment_buffer + (audio_buffer' - audio_buffer)
                    >= SamplesOf(VAD_MIN_SEGMENT_MS)
        /\ segment_buffer' < SamplesOf(TRANSCRIPTION_MAX_SEGMENT_MS)]_vars

\* the events hold a DualSignal
HasDualSignal(events) == \E i \in DOMAIN events : events[i].type = "DualSignal"

TopAboveThreshold(initialized, features, order) ==
    LET result == analyze_features(initialized, MinEmotionSamples, features, order)
    IN  /\ result.ok
        /\ 5 * result.value.confidence.num > 3 * result.value.confidence.den

\* C36: dual-signal confirmation is reachable with the built-in analyzer: once
\* the pipeline's analyzer is initialised, for some normalised feature values
\* (energy, pitch and variance each in [0,1], here in tenths) the highest
\* normalised score analyze returns is above the 0.6 the FSM requires.
C36_ConfidenceCanExceedThreshold ==
    emotion_initialized =>
        \E features \in GridFeatures(0..10), order \in EmotionOrders :
            TopAboveThreshold(emotion_initialized, features, order)

\* what the code does instead: a pipeline whose segments are classified by
\* its own analyzer never confirms the emotion signal, so its FSM is never
\* Locked and no DualSignal is emitted
C36_BuiltinNeverLocks ==
    /\ fsm.state # "Locked"
    /\ ~fsm.signal2_confirmed
    /\ ~HasDualSignal(emitted)

\* C37: after every AudioEngine operation has returned, successful or failed,
\* the engine state is Idle if and only if there is no current track, and if
\* and only if there is no music sink; the state is never Transitioning
\* between operations.
C37_IdleIffNothingLoaded ==
    /\ (engine.state = "Idle") <=> (engine.current_track = None)
    /\ (engine.state = "Idle") <=> (engine.music_sink = None)
    /\ engine.state # "Transitioning"

\* a crossfade that is not Instant wrote Transitioning and then Playing, and
\* returned with the new track loaded
C37_Witness ==
    /\ engine_op.op = "crossfade_to"
    /\ engine_op.result.ok
    /\ engine_op.arg[3] = <<"Transitioning", "Playing">>
    /\ engine.state = "Playing"
    /\ engine.music_sink # None
    /\ engine.current_track # None

\* C38: when play_track fails (sink creation, file open or decode error) the
\* previous playback has been stopped: the engine is Idle with no current
\* track and no music sink, never Playing and never with the previous track
\* as current.
C38_FailedPlayTrackIsIdle ==
    (engine_op.op = "play_track" /\ ~engine_op.result.ok) =>
        /\ engine.state = "Idle"
        /\ engine.current_track = None
        /\ engine.music_sink = None

\* play_track failed to decode the file of the track, with the engine ducking
\* from the playback before
C38_Witness ==
    /\ engine_op.op = "play_track"
    /\ ~engine_op.result.ok
    /\ engine_op.arg[2] = "bad_file"
    /\ engine.is_ducking
    /\ engine.state = "Idle"


\* the caller's last command was op and it returned this response
ReturnedWith(caller, op, response) ==
    /\ cmds[caller].op = op
    /\ cmds[caller].at = "rest"
    /\ cmds[caller].response = Some(response)

\* start_recording of this capture thread returned an error
CaptureFailed(thread) ==
    /\ captures[thread].result # None
    /\ ~captures[thread].result[1].ok

\* C31 (start_session command): when the capture of a start_session command
\* cannot be started, the command does not report success, and the session
\* state is never Recording while every capture thread has failed to record.
C31_FailedCaptureFailsStart ==
    /\ \A thread \in DOMAIN captures :
           CaptureFailed(thread) =>
               ~ReturnedWith(captures[thread].by, "start_session",
                             SessionResponse(TRUE, "recording"))
    /\ app.session_state = "Recording" =>
           \E thread \in DOMAIN captures : ~CaptureFailed(thread)

\* C31 (SessionOrchestrator::start_session): a start_session that fails
\* for want of a capture leaves the state Idle with no stream, and the state
\* is Recording only with an active capture stream.
C31_OrchestratorStartFails ==
    /\ (session_op.op = "start_session" /\ session_op.result = Err("AudioError")) =>
           session.state = "Idle" /\ ~session.capture.stream
    /\ session.state = "Recording" => session.capture.stream

\* C32: the capture callback never waits for the lock of the shared audio
\* buffer: no capture thread is ever blocked in its callback.
C32_CallbackNeverBlocks ==
    \A thread \in DOMAIN captures : ~captures[thread].blocked

C40_OrchestratorStopHalts ==
    session.state # "Recording" => ~session.capture.stream /\ ~session.capture.is_recording

\* C40: once a stop_session command has returned success and while the
\* session is Idle with no command in progress, no samples are appended to
\* the shared audio buffer.
C40_NoSamplesAfterStop ==
    [][(/\ app.session_state = "Idle"
        /\ \A caller \in Callers : cmds[caller].at = "rest" /\ cmds'[caller].at = "rest"
        /\ \E caller \in Callers :
               ReturnedWith(caller, "stop_session", SessionResponse(TRUE, "idle")))
       => app'.audio_buffer = app.audio_buffer]_vars

====
